---- MODULE Spec2Model ----
(***************************************************************************)
(* Model of the game engines of ai_card_game (app/core) and of the views    *)
(* that drive them (app/ui).                                               *)
(*                                                                         *)
(* Part 1: cards and deck (core/cards.py).                                 *)
(* Part 2: the poker hand evaluator (core/poker/rules.py).                 *)
(* Part 3: the Texas Hold'em controller (core/poker/controller.py).        *)
(* Part 4: the properties of the poker controller.                         *)
(* Part 5: the Blackjack rules (core/blackjack/rules.py).                  *)
(* Part 6: the Blackjack controller (core/blackjack/controller.py).        *)
(* Part 7: the properties of the Blackjack engine.                         *)
(* Part 8: the War engine (core/war).                                      *)
(* Part 9: the properties of the War engine.                               *)
(* Part 10: the two Deck classes (core/cards.py, card_game/cards.py).      *)
(* Part 11: the properties of the decks.                                   *)
(* Part 12: the poker evaluator applied to hands dealt card by card.       *)
(* Part 13: the properties of the poker evaluator.                         *)
(* Part 14: five-card hands and malformed inputs of the evaluator.         *)
(* Part 15: a poker hand played out by calls.                              *)
(* Part 16: the poker table as PokerView drives it (ui/poker_view.py).     *)
(* Part 17: the Blackjack view (ui/blackjack_view.py).                     *)
(* Part 18: the properties of the Blackjack view.                          *)
(***************************************************************************)
EXTENDS Integers, Sequences, FiniteSets, TLC

VARIABLES
    state,      \* PokerController.state : PokerState
    deck,       \* PokerController.deck._cards : the cards left, top = last
    result,     \* the value returned by the last controller call
    hands,      \* number of new_game calls so far (bounded by MaxHands)
    raises,     \* number of raise / all_in calls so far (bounded by MaxRaises)
    bj,         \* BlackjackController.state : BlackjackState
    shuffled,   \* the deck as Deck() shuffled it in Blackjack's last new_game
    calc,       \* a Blackjack hand and what rules.py computes for it
    war,        \* WarController.state : WarState
    war_ret,    \* what the last call on the War controller returned or raised
    rounds,     \* number of play_round calls so far (bounded by MaxRounds)
    pack,       \* a Deck object under test, with what its draws returned
    bench,      \* poker hands under evaluation and what rules.py returns
    view        \* BlackjackView: its buttons, its workers, the results saved

vars == <<state, deck, result, hands, raises, bj, shuffled, calc,
          war, war_ret, rounds, pack, bench, view>>

\* the poker table, and the Blackjack table with the hand under evaluation
poker_vars == <<state, deck, result, hands, raises>>

blackjack_vars == <<bj, shuffled, calc>>

\* the War table
war_vars == <<war, war_ret, rounds>>

\* the War table, the deck under test, the hands under evaluation and the
\* Blackjack view
rest_vars == <<war_vars, pack, bench, view>>

\* none of them is in use
RestIdle ==
    /\ war = <<>> /\ war_ret = <<>> /\ rounds = 0
    /\ pack = <<>> /\ bench = <<>> /\ view = <<>>

(***************************************************************************)
(* Bounds of the exploration.                                              *)
(***************************************************************************)
MaxHands == 2
MaxRaises == 2

(***************************************************************************)
(* Part 1: cards.py                                                        *)
(***************************************************************************)
SUITS == <<"hearts", "diamonds", "clubs", "spades">>

RANKS == <<"A", "2", "3", "4", "5", "6", "7", "8", "9", "10", "J", "Q", "K">>

Card(s, r) == [suit |-> s, rank |-> r]

\* Deck.__init__ before the shuffle: [Card(s, r) for s in SUITS for r in RANKS]
DeckCards ==
    [i \in 1..(Len(SUITS) * Len(RANKS)) |->
        Card(SUITS[((i - 1) \div Len(RANKS)) + 1], RANKS[((i - 1) % Len(RANKS)) + 1])]

Reverse(s) == [i \in 1..Len(s) |-> s[Len(s) + 1 - i]]

SeqToSet(s) == {s[i] : i \in 1..Len(s)}

RECURSIVE Without(_, _)
\* the cards of sequence s that are not in set S, in the order of s
Without(s, S) ==
    IF s = <<>> THEN <<>>
    ELSE IF Head(s) \in S THEN Without(Tail(s), S)
         ELSE <<Head(s)>> \o Without(Tail(s), S)

\* The orders of the first twelve draws that the shuffles of the model
\* produce: player hole cards, ai hole cards, burn, flop, burn, turn, burn,
\* river.  random.shuffle can produce any permutation; the model explores
\* the permutations that put one of these sequences on top of the deck.
ShuffleTops ==
    { \* player: pair of aces, ai: pair of kings (same category, tie-break)
      << Card("spades", "A"), Card("hearts", "A"),
         Card("spades", "K"), Card("hearts", "K"),
         Card("clubs", "4"),
         Card("clubs", "2"), Card("diamonds", "7"), Card("hearts", "9"),
         Card("clubs", "5"),
         Card("spades", "J"),
         Card("clubs", "6"),
         Card("clubs", "3") >>,
      \* ai: flush in diamonds, player: three of a kind (category decides)
      << Card("spades", "9"), Card("hearts", "9"),
         Card("diamonds", "2"), Card("diamonds", "K"),
         Card("clubs", "4"),
         Card("diamonds", "9"), Card("diamonds", "7"), Card("diamonds", "J"),
         Card("clubs", "5"),
         Card("spades", "3"),
         Card("clubs", "6"),
         Card("clubs", "Q") >>,
      \* the board is an ace-high straight, both sides play the board: tie
      << Card("spades", "2"), Card("hearts", "3"),
         Card("clubs", "2"), Card("diamonds", "3"),
         Card("clubs", "4"),
         Card("spades", "10"), Card("hearts", "J"), Card("diamonds", "Q"),
         Card("clubs", "5"),
         Card("clubs", "K"),
         Card("clubs", "6"),
         Card("spades", "A") >> }

\* Deck.shuffle: the set of orders the model lets random.shuffle produce.
\* Each is a permutation of cards; draw() pops from the end of the list.
shuffle(cards) ==
    { Without(cards, SeqToSet(top)) \o Reverse(top) : top \in ShuffleTops }

\* Deck(): the possible fresh decks
Deck == shuffle(DeckCards)

(***************************************************************************)
(* Part 2: poker/rules.py                                                  *)
(***************************************************************************)
RANK_VALUES ==
    [r \in SeqToSet(RANKS) |->
        CASE r = "J" -> 11 [] r = "Q" -> 12 [] r = "K" -> 13 [] r = "A" -> 14
          [] r = "2" -> 2 [] r = "3" -> 3 [] r = "4" -> 4 [] r = "5" -> 5
          [] r = "6" -> 6 [] r = "7" -> 7 [] r = "8" -> 8 [] r = "9" -> 9
          [] r = "10" -> 10]

card_value(card) ==
    IF card.rank \in DOMAIN RANK_VALUES THEN RANK_VALUES[card.rank] ELSE 0

RECURSIVE InsertDesc(_, _)
InsertDesc(v, s) ==
    IF s = <<>> THEN <<v>>
    ELSE IF v >= Head(s) THEN <<v>> \o s
         ELSE <<Head(s)>> \o InsertDesc(v, Tail(s))

RECURSIVE SortDesc(_)
\* sorted(xs, reverse=True) on integers
SortDesc(s) == IF s = <<>> THEN <<>> ELSE InsertDesc(Head(s), SortDesc(Tail(s)))

RECURSIVE ListGT(_, _)
\* Python's a > b on lists of integers (lexicographic, a proper prefix is less)
ListGT(a, b) ==
    IF a = <<>> THEN FALSE
    ELSE IF b = <<>> THEN TRUE
    ELSE IF Head(a) # Head(b) THEN Head(a) > Head(b)
    ELSE ListGT(Tail(a), Tail(b))

\* _is_straight: every adjacent pair of the (descending) values differs by 1
_is_straight(values) ==
    \A i \in 1..(Len(values) - 1) : values[i] - values[i + 1] = 1

\* Counter(values)[v]
CountOf(values, v) == Cardinality({i \in 1..Len(values) : values[i] = v})

\* [v for v, c in value_counts.items() if c == n], in insertion order of values
RECURSIVE WithCountFrom(_, _, _, _)
WithCountFrom(values, n, i, seen) ==
    IF i > Len(values) THEN <<>>
    ELSE IF values[i] \notin seen /\ CountOf(values, values[i]) = n
         THEN <<values[i]>> \o WithCountFrom(values, n, i + 1, seen \cup {values[i]})
         ELSE WithCountFrom(values, n, i + 1, seen \cup {values[i]})

WithCount(values, n) == WithCountFrom(values, n, 1, {})

RECURSIVE DistinctFrom(_, _, _)
DistinctFrom(values, i, seen) ==
    IF i > Len(values) THEN <<>>
    ELSE IF values[i] \in seen THEN DistinctFrom(values, i + 1, seen)
         ELSE <<values[i]>> \o DistinctFrom(values, i + 1, seen \cup {values[i]})

\* sorted(value_counts.values(), reverse=True)
CountsOf(values) ==
    LET ds == DistinctFrom(values, 1, {})
    IN  SortDesc([i \in 1..Len(ds) |-> CountOf(values, ds[i])])

\* _evaluate_five_cards, the chain of returns: values is the tie-break list
\* (the ace of a wheel already counted as 1), counts the sorted multiplicities
HandOf(values, counts, is_flush, is_straight) ==
    IF is_flush /\ is_straight /\ values[1] = 14 /\ values[5] = 10
      THEN <<10, values, "Royal Flush">>
    ELSE IF is_flush /\ is_straight
      THEN <<9, values, "Straight Flush">>
    ELSE IF counts = <<4, 1>>
      THEN <<8, <<WithCount(values, 4)[1], WithCount(values, 1)[1]>>, "Four of a Kind">>
    ELSE IF counts = <<3, 2>>
      THEN <<7, <<WithCount(values, 3)[1], WithCount(values, 2)[1]>>, "Full House">>
    ELSE IF is_flush
      THEN <<6, values, "Flush">>
    ELSE IF is_straight
      THEN <<5, values, "Straight">>
    ELSE IF counts = <<3, 1, 1>>
      THEN <<4, <<WithCount(values, 3)[1]>> \o SortDesc(WithCount(values, 1)), "Three of a Kind">>
    ELSE IF counts = <<2, 2, 1>>
      THEN <<3, SortDesc(WithCount(values, 2)) \o <<WithCount(values, 1)[1]>>, "Two Pair">>
    ELSE IF counts = <<2, 1, 1, 1>>
      THEN <<2, <<WithCount(values, 2)[1]>> \o SortDesc(WithCount(values, 1)), "Pair">>
    ELSE <<1, values, "High Card">>

HandOfSorted_no_wheel(values, is_flush) ==
    HandOf(values, CountsOf(values), is_flush, _is_straight(values))

\* _evaluate_five_cards from the sorted values on: the ace-low straight
\* (A-2-3-4-5) is a straight whose ace counts as 1
HandOfSorted(values, is_flush) ==
    IF values = <<14, 5, 4, 3, 2>>
    THEN HandOf(<<5, 4, 3, 2, 1>>, CountsOf(<<5, 4, 3, 2, 1>>), is_flush, TRUE)
    ELSE HandOf(values, CountsOf(values), is_flush, _is_straight(values))

\* _evaluate_five_cards: <<rank, tiebreaker, name>>
_evaluate_five_cards(cards) ==
    HandOfSorted(SortDesc([i \in 1..Len(cards) |-> card_value(cards[i])]),
                 Cardinality({cards[i].suit : i \in 1..Len(cards)}) = 1)

RECURSIVE Combinations(_, _, _)
\* itertools.combinations(range(from, n + 1), k): index tuples in lexicographic order
Combinations(from, n, k) ==
    IF k = 0 THEN << <<>> >>
    ELSE IF n - from + 1 < k THEN <<>>
    ELSE LET withFirst == Combinations(from + 1, n, k - 1)
         IN  [i \in 1..Len(withFirst) |-> <<from>> \o withFirst[i]]
             \o Combinations(from + 1, n, k)

Better_category_only(ev, best) == ev[1] > best[1]

\* the test of the loop of evaluate_hand: is the hand ev better than best
Better(ev, best) == ev[1] > best[1] \/ (ev[1] = best[1] /\ ListGT(ev[2], best[2]))

\* the body of the loop of evaluate_hand
Keep(ev, best) == IF Better(ev, best) THEN ev ELSE best

RECURSIVE BestOf(_, _, _, _)
\* the loop of evaluate_hand over the combinations, keeping the best so far
BestOf(all_cards, combos, i, best) ==
    IF i > Len(combos) THEN best
    ELSE BestOf(all_cards, combos, i + 1,
                Keep(_evaluate_five_cards([j \in 1..5 |-> all_cards[combos[i][j]]]), best))

\* evaluate_hand on the concatenation of the hole and the community cards
EvaluateAll(all_cards) ==
    IF Len(all_cards) < 5
    THEN <<1, SortDesc([i \in 1..Len(all_cards) |-> card_value(all_cards[i])]), "High Card">>
    ELSE BestOf(all_cards, Combinations(1, Len(all_cards), 5), 1, <<0, <<>>, "High Card">>)

\* evaluate_hand: <<hand_rank, tiebreaker_values, hand_name>>
evaluate_hand(hole_cards, community) == EvaluateAll(hole_cards \o community)

Compare_tiebreak_first(p, a) ==
    IF ListGT(p[2], a[2]) THEN <<"player", p[3], a[3]>>
    ELSE IF ListGT(a[2], p[2]) THEN <<"ai", p[3], a[3]>>
    ELSE IF p[1] > a[1] THEN <<"player", p[3], a[3]>>
    ELSE IF a[1] > p[1] THEN <<"ai", p[3], a[3]>>
    ELSE <<"tie", p[3], a[3]>>

\* compare_hands from the two evaluations on
Compare(p, a) ==
    IF p[1] > a[1] THEN <<"player", p[3], a[3]>>
    ELSE IF a[1] > p[1] THEN <<"ai", p[3], a[3]>>
    ELSE IF ListGT(p[2], a[2]) THEN <<"player", p[3], a[3]>>
    ELSE IF ListGT(a[2], p[2]) THEN <<"ai", p[3], a[3]>>
    ELSE <<"tie", p[3], a[3]>>

\* compare_hands: <<winner, player_hand_name, ai_hand_name>>
compare_hands(player_hole, ai_hole, community) ==
    Compare(evaluate_hand(player_hole, community), evaluate_hand(ai_hole, community))

(***************************************************************************)
(* Part 3: poker/state.py and poker/controller.py                          *)
(***************************************************************************)
None == "None"

\* a message (an f-string) is the sequence of its parts; "" is <<>>
Msg1(text) == <<text>>

Msg2(text, n) == <<text, n>>

\* PokerState(player_chips=.., ai_chips=.., dealer_is_player=..)
PokerState(player_chips, ai_chips, dealer_is_player) ==
    [ player_hand |-> <<>>, ai_hand |-> <<>>, community_cards |-> <<>>,
      player_chips |-> player_chips, ai_chips |-> ai_chips,
      pot |-> 0, current_bet |-> 0, player_bet |-> 0, ai_bet |-> 0,
      small_blind |-> 10, big_blind |-> 20,
      dealer_is_player |-> dealer_is_player,
      phase |-> "preflop", turn |-> "player",
      finished |-> FALSE, winner |-> None, winning_hand |-> <<>>,
      player_folded |-> FALSE, ai_folded |-> FALSE,
      player_acted |-> FALSE, ai_acted |-> FALSE ]

\* PokerState(): every field at its default
PokerStateDefault == PokerState(1000, 1000, TRUE)

Min(a, b) == IF a < b THEN a ELSE b

\* PokerController._post_blinds
_post_blinds(st) ==
    LET sb == st.small_blind
        bb == st.big_blind
        posted ==
            IF st.dealer_is_player
            THEN [st EXCEPT !.player_chips = @ - sb, !.player_bet = sb,
                            !.ai_chips = @ - bb, !.ai_bet = bb,
                            !.turn = "player", !.ai_acted = TRUE]
            ELSE [st EXCEPT !.ai_chips = @ - sb, !.ai_bet = sb,
                            !.player_chips = @ - bb, !.player_bet = bb,
                            !.turn = "ai", !.player_acted = TRUE]
    IN  [posted EXCEPT !.pot = sb + bb, !.current_bet = bb]

\* new_game keeping the dealer button where it was
new_game_same_dealer(st, fresh) ==
    LET n == Len(fresh)
        reset == PokerState(st.player_chips, st.ai_chips, st.dealer_is_player)
        dealt == [reset EXCEPT !.player_hand = <<fresh[n], fresh[n - 1]>>,
                               !.ai_hand = <<fresh[n - 2], fresh[n - 3]>>]
    IN  [state |-> _post_blinds(dealt), deck |-> SubSeq(fresh, 1, n - 4)]

\* PokerController.new_game, given the freshly shuffled deck
new_game(st, fresh) ==
    LET n == Len(fresh)
        reset == PokerState(st.player_chips, st.ai_chips, ~st.dealer_is_player)
        dealt == [reset EXCEPT !.player_hand = <<fresh[n], fresh[n - 1]>>,
                               !.ai_hand = <<fresh[n - 2], fresh[n - 3]>>]
    IN  [state |-> _post_blinds(dealt), deck |-> SubSeq(fresh, 1, n - 4)]

\* _finish_hand paying the winner but leaving the pot in place
_finish_hand_keeps_pot(st, winner) ==
    LET paid ==
            IF winner = "player" THEN [st EXCEPT !.player_chips = @ + st.pot]
            ELSE IF winner = "ai" THEN [st EXCEPT !.ai_chips = @ + st.pot]
            ELSE [st EXCEPT !.player_chips = @ + (st.pot \div 2),
                            !.ai_chips = @ + (st.pot \div 2)]
    IN  [paid EXCEPT !.finished = TRUE, !.winner = winner]

\* _finish_hand paying a tie to the player only
_finish_hand_tie_unsplit(st, winner) ==
    LET paid ==
            IF winner = "ai" THEN [st EXCEPT !.ai_chips = @ + st.pot]
            ELSE [st EXCEPT !.player_chips = @ + st.pot]
    IN  [paid EXCEPT !.finished = TRUE, !.winner = winner, !.pot = 0]

\* PokerController._finish_hand
_finish_hand(st, winner) ==
    LET paid ==
            IF winner = "player" THEN [st EXCEPT !.player_chips = @ + st.pot]
            ELSE IF winner = "ai" THEN [st EXCEPT !.ai_chips = @ + st.pot]
            ELSE [st EXCEPT !.player_chips = @ + (st.pot \div 2),
                            !.ai_chips = @ + (st.pot \div 2)]
    IN  [paid EXCEPT !.finished = TRUE, !.winner = winner, !.pot = 0]

\* The hole cards and the full board each shuffle of the model deals
Deals ==
    { << <<top[1], top[2]>>, <<top[3], top[4]>>,
         <<top[6], top[7], top[8], top[10], top[12]>> >> : top \in ShuffleTops }

\* compare_hands on every deal of the model, evaluated once
compare_hands_of == [d \in Deals |-> compare_hands(d[1], d[2], d[3])]

\* PokerController._showdown
_showdown(st) ==
    LET cmp == compare_hands_of[<<st.player_hand, st.ai_hand, st.community_cards>>]
        shown == [st EXCEPT !.phase = "showdown",
                            !.winning_hand = <<"You: ", cmp[2], ", AI: ", cmp[3]>>]
    IN  _finish_hand(shown, cmp[1])

\* _next_phase dealing the turn and the river without burning a card
_next_phase_no_burn(st, dk) ==
    LET n == Len(dk)
        reset == [st EXCEPT !.player_bet = 0, !.ai_bet = 0, !.current_bet = 0,
                            !.player_acted = FALSE, !.ai_acted = FALSE,
                            !.turn = IF st.dealer_is_player THEN "ai" ELSE "player"]
    IN  IF st.phase = "preflop"
          THEN [state |-> [reset EXCEPT !.phase = "flop",
                              !.community_cards = @ \o <<dk[n - 1], dk[n - 2], dk[n - 3]>>],
                deck |-> SubSeq(dk, 1, n - 4)]
        ELSE IF st.phase = "flop"
          THEN [state |-> [reset EXCEPT !.phase = "turn",
                              !.community_cards = Append(@, dk[n])],
                deck |-> SubSeq(dk, 1, n - 1)]
        ELSE IF st.phase = "turn"
          THEN [state |-> [reset EXCEPT !.phase = "river",
                              !.community_cards = Append(@, dk[n])],
                deck |-> SubSeq(dk, 1, n - 1)]
        ELSE IF st.phase = "river"
          THEN [state |-> _showdown(reset), deck |-> dk]
        ELSE [state |-> reset, deck |-> dk]

\* PokerController._next_phase
_next_phase(st, dk) ==
    LET n == Len(dk)
        reset == [st EXCEPT !.player_bet = 0, !.ai_bet = 0, !.current_bet = 0,
                            !.player_acted = FALSE, !.ai_acted = FALSE,
                            !.turn = IF st.dealer_is_player THEN "ai" ELSE "player"]
    IN  IF st.phase = "preflop"
          THEN [state |-> [reset EXCEPT !.phase = "flop",
                              !.community_cards = @ \o <<dk[n - 1], dk[n - 2], dk[n - 3]>>],
                deck |-> SubSeq(dk, 1, n - 4)]
        ELSE IF st.phase = "flop"
          THEN [state |-> [reset EXCEPT !.phase = "turn",
                              !.community_cards = Append(@, dk[n - 1])],
                deck |-> SubSeq(dk, 1, n - 2)]
        ELSE IF st.phase = "turn"
          THEN [state |-> [reset EXCEPT !.phase = "river",
                              !.community_cards = Append(@, dk[n - 1])],
                deck |-> SubSeq(dk, 1, n - 2)]
        ELSE IF st.phase = "river"
          THEN [state |-> _showdown(reset), deck |-> dk]
        ELSE [state |-> reset, deck |-> dk]

\* _next_turn completing the round without comparing the bets
_next_turn_ignoring_bets(st, dk) ==
    IF st.finished THEN [state |-> st, deck |-> dk]
    ELSE IF st.player_acted /\ st.ai_acted
      THEN _next_phase(st, dk)
    ELSE [state |-> [st EXCEPT !.turn = IF st.turn = "player" THEN "ai" ELSE "player"],
          deck |-> dk]

\* _next_turn closing the round as soon as the player's bet covers the AI's
_next_turn_covered_bets(st, dk) ==
    IF st.finished THEN [state |-> st, deck |-> dk]
    ELSE IF st.player_acted /\ st.ai_acted /\ st.player_bet >= st.ai_bet
      THEN _next_phase(st, dk)
    ELSE [state |-> [st EXCEPT !.turn = IF st.turn = "player" THEN "ai" ELSE "player"],
          deck |-> dk]

\* PokerController._next_turn
_next_turn(st, dk) ==
    IF st.finished THEN [state |-> st, deck |-> dk]
    ELSE IF st.player_acted /\ st.ai_acted /\ st.player_bet = st.ai_bet
      THEN _next_phase(st, dk)
    ELSE [state |-> [st EXCEPT !.turn = IF st.turn = "player" THEN "ai" ELSE "player"],
          deck |-> dk]

\* The branches of player_action and ai_action are modelled up to their
\* trailing call: the state they leave, the value they return, and the call
\* that follows ("finish" = _finish_hand, "next" = _next_turn, "return" = none).
Branch(st, ret, then) == [state |-> st, ret |-> ret, then |-> then]

\* the entry test without the check for a finished hand
not_turn_of_ignoring_finished(st, side) == st.turn # side

\* player_action / ai_action, first statement: finished or not this side's turn
not_turn_of(st, side) == st.finished \/ st.turn # side

\* player_check accepted whatever is owed
player_check_always(st) ==
    Branch([st EXCEPT !.player_acted = TRUE], Msg1("You checked"), "next")

\* player_action, action == "check"
player_check(st) ==
    IF st.player_bet < st.current_bet
    THEN Branch(st, Msg1("Cannot check, must call or raise"), "return")
    ELSE Branch([st EXCEPT !.player_acted = TRUE], Msg1("You checked"), "next")

\* player_call with the chips paid but not added to the pot
player_call_pot_unchanged(st) ==
    LET call_amount == Min(st.current_bet - st.player_bet, st.player_chips)
    IN  Branch([st EXCEPT !.player_chips = @ - call_amount,
                          !.player_bet = @ + call_amount,
                          !.player_acted = TRUE],
               Msg2("You called $", call_amount), "next")

\* player_action, action == "call"
player_call(st) ==
    LET call_amount == Min(st.current_bet - st.player_bet, st.player_chips)
    IN  Branch([st EXCEPT !.player_chips = @ - call_amount,
                          !.player_bet = @ + call_amount,
                          !.pot = @ + call_amount,
                          !.player_acted = TRUE],
               Msg2("You called $", call_amount), "next")

\* player_raise leaving the AI's acted flag as it was
player_raise_no_response(st, amount) ==
    LET min_raise == st.big_blind
        amt == IF amount < min_raise THEN min_raise ELSE amount
        call_amount == st.current_bet - st.player_bet
        total == Min(call_amount + amt, st.player_chips)
    IN  Branch([st EXCEPT !.player_chips = @ - total,
                          !.player_bet = @ + total,
                          !.pot = @ + total,
                          !.current_bet = st.player_bet + total,
                          !.player_acted = TRUE],
               Msg1("You raised to $"), "next")

\* player_action, action == "raise" (the message is completed after _next_turn)
player_raise(st, amount) ==
    LET min_raise == st.big_blind
        amt == IF amount < min_raise THEN min_raise ELSE amount
        call_amount == st.current_bet - st.player_bet
        total == Min(call_amount + amt, st.player_chips)
    IN  Branch([st EXCEPT !.player_chips = @ - total,
                          !.player_bet = @ + total,
                          !.pot = @ + total,
                          !.current_bet = st.player_bet + total,
                          !.player_acted = TRUE,
                          !.ai_acted = FALSE],
               Msg1("You raised to $"), "next")

\* player_action, action == "all_in"
player_all_in(st) ==
    LET all_in_amount == st.player_chips
        bet == st.player_bet + all_in_amount
        over == bet > st.current_bet
    IN  Branch([st EXCEPT !.player_chips = 0,
                          !.player_bet = bet,
                          !.pot = @ + all_in_amount,
                          !.current_bet = IF over THEN bet ELSE @,
                          !.ai_acted = IF over THEN FALSE ELSE @,
                          !.player_acted = TRUE],
               Msg2("You went all-in for $", all_in_amount), "next")

\* player_action: the branch taken on the player's turn
player_apply(st, action, amount) ==
    IF action = "fold"
      THEN Branch([st EXCEPT !.player_folded = TRUE], Msg1("You folded"), "finish")
    ELSE IF action = "check" THEN player_check(st)
    ELSE IF action = "call" THEN player_call(st)
    ELSE IF action = "raise" THEN player_raise(st, amount)
    ELSE IF action = "all_in" THEN player_all_in(st)
    ELSE Branch(st, Msg1("Invalid action"), "return")

\* the call that ends a branch
trailing(b, dk, fold_winner) ==
    IF b.then = "finish"
      THEN [state |-> _finish_hand(b.state, fold_winner), deck |-> dk]
    ELSE IF b.then = "next" THEN _next_turn(b.state, dk)
    ELSE [state |-> b.state, deck |-> dk]

\* PokerController.player_action: state, deck and the message returned
player_action(st, dk, action, amount) ==
    IF not_turn_of(st, "player")
      THEN [state |-> st, deck |-> dk, ret |-> Msg1("Not your turn")]
    ELSE LET b == player_apply(st, action, amount)
             after == trailing(b, dk, "ai")
         IN  [state |-> after.state, deck |-> after.deck,
              ret |-> IF action = "raise"
                        THEN Msg2("You raised to $", after.state.current_bet)
                        ELSE b.ret]

\* dict.get(key, default)
get(d, key, default) == IF key \in DOMAIN d THEN d[key] ELSE default

\* ai_action, action == "call" (also reached from "check" when a call is owed)
ai_call(st) ==
    LET call_amount == Min(st.current_bet - st.ai_bet, st.ai_chips)
        paid == IF call_amount > 0
                THEN [st EXCEPT !.ai_chips = @ - call_amount,
                                !.ai_bet = @ + call_amount,
                                !.pot = @ + call_amount]
                ELSE st
    IN  Branch([paid EXCEPT !.ai_acted = TRUE],
               <<"call", Msg2("AI calls $", call_amount)>>, "next")

\* ai_action, action == "raise" (the message is completed after _next_turn)
ai_raise(st, raise_amount) ==
    LET call_amount == st.current_bet - st.ai_bet
        total == Min(call_amount + raise_amount, st.ai_chips)
    IN  IF total <= 0
        THEN Branch([st EXCEPT !.ai_acted = TRUE], <<"check", Msg1("AI checks")>>, "next")
        ELSE Branch([st EXCEPT !.ai_chips = @ - total,
                               !.ai_bet = @ + total,
                               !.pot = @ + total,
                               !.current_bet = st.ai_bet + total,
                               !.ai_acted = TRUE,
                               !.player_acted = FALSE],
                    <<"raise", Msg1("AI raises to $")>>, "next")

\* ai_apply with a check accepted whatever is owed
ai_apply_check_accepted(st, decision) ==
    LET action == get(decision, "action", "call")
        raise_amount == get(decision, "raise_amount", 40)
    IN  IF action = "fold"
          THEN Branch([st EXCEPT !.ai_folded = TRUE], <<"fold", Msg1("AI folds")>>, "finish")
        ELSE IF action = "check"
          THEN Branch([st EXCEPT !.ai_acted = TRUE], <<"check", Msg1("AI checks")>>, "next")
        ELSE IF action = "call" THEN ai_call(st)
        ELSE IF action = "raise" THEN ai_raise(st, raise_amount)
        ELSE Branch(st, <<"none", <<>>>>, "return")

\* ai_action: the branch taken on the AI's turn
ai_apply(st, decision) ==
    LET action == get(decision, "action", "call")
        raise_amount == get(decision, "raise_amount", 40)
        call_amount == st.current_bet - st.ai_bet
    IN  IF action = "fold"
          THEN Branch([st EXCEPT !.ai_folded = TRUE], <<"fold", Msg1("AI folds")>>, "finish")
        ELSE IF action = "check" /\ call_amount <= 0
          THEN Branch([st EXCEPT !.ai_acted = TRUE], <<"check", Msg1("AI checks")>>, "next")
        ELSE IF action = "check" \/ action = "call" THEN ai_call(st)
        ELSE IF action = "raise" THEN ai_raise(st, raise_amount)
        ELSE Branch(st, <<"none", <<>>>>, "return")

\* PokerController.ai_action: state, deck and the (action_name, message) returned
ai_action(st, dk, decision) ==
    IF not_turn_of(st, "ai")
      THEN [state |-> st, deck |-> dk, ret |-> <<"none", <<>>>>]
    ELSE LET b == ai_apply(st, decision)
             after == trailing(b, dk, "player")
         IN  [state |-> after.state, deck |-> after.deck,
              ret |-> IF b.ret[1] = "raise"
                        THEN <<"raise", Msg2("AI raises to $", after.state.current_bet)>>
                        ELSE b.ret]

\* PokerController.reset_chips
reset_chips(st) == [st EXCEPT !.player_chips = 1000, !.ai_chips = 1000]

(***************************************************************************)
(* The calls a driver can make, with the inputs the model explores.        *)
(***************************************************************************)
\* raise amounts handed to player_action (the spin box default is 40)
PlayerAmounts == {0, 2000}

\* player_action(action, amount=0); "bet" is not an action of the engine
PlayerCalls ==
    {<<a, 0>> : a \in {"fold", "check", "call", "all_in", "bet"}}
        \cup {<<"raise", m>> : m \in PlayerAmounts}

\* raise amounts of the decisions (a decision without the key raises by 40)
AiAmounts == {0, 2000}

\* decision dicts handed to ai_action; "all_in" is not an action ai_action
\* knows, and the last dict has no "action" key
Decisions ==
    {[action |-> a] : a \in {"fold", "check", "call", "raise", "all_in"}}
        \cup {[action |-> "raise", raise_amount |-> m] : m \in AiAmounts}
        \cup {[comment |-> "hm"]}

\* does the call reach a branch that raises the stake (counted by raises)
PlayerRaises(st, action) ==
    ~st.finished /\ st.turn = "player" /\ action \in {"raise", "all_in"}

AiRaises(st, decision) ==
    ~st.finished /\ st.turn = "ai" /\ get(decision, "action", "call") = "raise"

\* PokerController.__init__: PokerState(), Deck(), new_game()
Init ==
    /\ \E fresh \in Deck :
          LET g == new_game(PokerStateDefault, fresh)
          IN  state = g.state /\ deck = g.deck
    /\ result = <<>>
    /\ hands = 1
    /\ raises = 0
    /\ bj = <<>> /\ shuffled = <<>> /\ calc = <<>>
    /\ RestIdle

\* PokerView.on_new_game, the caller of new_game: the chips are reset first
\* when a side is broke.  The NEW HAND button is pressed here once the hand on
\* the table has ended.
on_new_game(st, fresh) ==
    IF st.player_chips <= 0 \/ st.ai_chips <= 0
    THEN new_game(reset_chips(st), fresh)
    ELSE new_game(st, fresh)

NewGame ==
    /\ hands < MaxHands
    /\ state.finished
    /\ \E fresh \in Deck :
          LET g == on_new_game(state, fresh)
          IN  state' = g.state /\ deck' = g.deck
    /\ result' = Msg1("None")
    /\ hands' = hands + 1
    /\ UNCHANGED raises
    /\ UNCHANGED <<blackjack_vars, rest_vars>>

PlayerAction(action, amount) ==
    /\ PlayerRaises(state, action) => raises < MaxRaises
    /\ raises' = IF PlayerRaises(state, action) THEN raises + 1 ELSE raises
    /\ UNCHANGED hands
    /\ LET r == player_action(state, deck, action, amount)
       IN  state' = r.state /\ deck' = r.deck /\ result' = r.ret
    /\ UNCHANGED <<blackjack_vars, rest_vars>>

AiAction(decision) ==
    /\ AiRaises(state, decision) => raises < MaxRaises
    /\ raises' = IF AiRaises(state, decision) THEN raises + 1 ELSE raises
    /\ UNCHANGED hands
    /\ LET r == ai_action(state, deck, decision)
       IN  state' = r.state /\ deck' = r.deck /\ result' = r.ret
    /\ UNCHANGED <<blackjack_vars, rest_vars>>

Next ==
    \/ NewGame
    \/ \E c \in PlayerCalls : PlayerAction(c[1], c[2])
    \/ \E d \in Decisions : AiAction(d)

Spec == Init /\ [][Next]_vars

(***************************************************************************)
(* Part 4: properties of the poker controller                              *)
(***************************************************************************)
Chips(st) == st.player_chips + st.ai_chips + st.pot

Other(side) == IF side = "player" THEN "ai" ELSE "player"

NextPhase(phase) ==
    CASE phase = "preflop" -> "flop"
      [] phase = "flop" -> "turn"
      [] phase = "turn" -> "river"
      [] phase = "river" -> "showdown"
      [] OTHER -> "none"

\* a step that is the call player_action(c[1], c[2])
PlayerStep(c) == PlayerAction(c[1], c[2])

\* a step that is the call ai_action(d)
AiStep(d) == AiAction(d)

\* the last call returned the message / the action name
Returned(text) == Len(result) > 0 /\ result[1] = text

\* C1: every player_action and ai_action call that does not finish the hand
\* (the pot award) leaves player_chips + ai_chips + pot unchanged.
C1_ChipConservation ==
    [][ ( /\ \/ \E c \in PlayerCalls : PlayerStep(c)
             \/ \E d \in Decisions : AiStep(d)
          /\ ~(~state.finished /\ state'.finished) )
        => Chips(state') = Chips(state) ]_vars

\* a raise was paid into the pot in the second hand, which goes on
C1_Witness ==
    /\ hands = 2 /\ ~state.finished /\ raises = 2
    /\ Returned("call") /\ state.pot > 1000

\* the round-completion rule applied to the state a branch leaves
RoundRule(mid, before, after) ==
    IF mid.player_acted /\ mid.ai_acted /\ mid.player_bet = mid.ai_bet
    THEN after.phase = NextPhase(before.phase)
    ELSE after.phase = before.phase /\ after.turn = Other(before.turn)

\* C2: after an accepted action other than a fold, the phase advances by one
\* step iff both sides have acted and the bets are equal; otherwise the phase
\* stays and the turn passes to the other side.
C2_RoundCompletion ==
    [][ /\ \A c \in PlayerCalls :
              ( /\ ~not_turn_of(state, "player")
                /\ player_apply(state, c[1], c[2]).then = "next"
                /\ PlayerStep(c) )
              => RoundRule(player_apply(state, c[1], c[2]).state, state, state')
        /\ \A d \in Decisions :
              ( /\ ~not_turn_of(state, "ai")
                /\ ai_apply(state, d).then = "next"
                /\ AiStep(d) )
              => RoundRule(ai_apply(state, d).state, state, state') ]_vars

\* the AI's call completed the betting of the turn: the river is dealt
C2_Witness ==
    /\ state.phase = "river" /\ ~state.finished
    /\ Returned("call") /\ Len(state.community_cards) = 5

\* C3: between engine calls no side's bet exceeds current_bet.
C3_BetsWithinCurrent ==
    state.player_bet <= state.current_bet /\ state.ai_bet <= state.current_bet

CommunityCount(phase) ==
    CASE phase = "preflop" -> 0
      [] phase = "flop" -> 3
      [] phase = "turn" -> 4
      [] OTHER -> 5

BurnCount(phase) ==
    CASE phase = "preflop" -> 0
      [] phase = "flop" -> 1
      [] phase = "turn" -> 2
      [] OTHER -> 3

\* this step burns the top card of the deck and reveals the k cards below it
BurnAndReveal(k) ==
    /\ Len(deck) >= k + 1
    /\ state'.community_cards =
          state.community_cards \o [i \in 1..k |-> deck[Len(deck) - i]]
    /\ deck' = SubSeq(deck, 1, Len(deck) - k - 1)

\* C4: within a hand the phase only moves one step forward along
\* preflop, flop, turn, river, showdown; the board holds 0, 3, 4, 5, 5 cards
\* in these phases; each street is dealt after burning exactly one card.
C4_PhaseOrder ==
    /\ [](/\ Len(state.community_cards) = CommunityCount(state.phase)
          /\ Len(deck) = 52 - 4 - CommunityCount(state.phase) - BurnCount(state.phase))
    /\ [][ (hands' = hands /\ state'.phase # state.phase)
           => /\ state'.phase = NextPhase(state.phase)
              /\ state'.phase = "flop" => BurnAndReveal(3)
              /\ state'.phase \in {"turn", "river"} => BurnAndReveal(1)
              /\ state'.phase = "showdown"
                    => deck' = deck /\ state'.community_cards = state.community_cards
       ]_vars

\* a hand that went through every street to the showdown
C4_Witness ==
    /\ state.phase = "showdown" /\ state.finished
    /\ Len(state.community_cards) = 5 /\ Len(deck) = 40

\* the effect of a fold by side on the state
Folded(side, before, after) ==
    /\ after.finished /\ after.winner = Other(side)
    /\ after.pot = 0
    /\ after.phase = before.phase
    /\ after.community_cards = before.community_cards
    /\ after.winning_hand = before.winning_hand
    /\ deck' = deck
    /\ IF side = "player"
       THEN /\ after.ai_chips = before.ai_chips + before.pot
            /\ after.player_chips = before.player_chips
       ELSE /\ after.player_chips = before.player_chips + before.pot
            /\ after.ai_chips = before.ai_chips

\* C5: a fold by the side to act finishes the hand at once, the other side
\* wins and receives the whole pot, the pot is 0, and the phase, the board
\* and the deck are unchanged (no street dealt, no showdown evaluated).
C5_FoldEndsHand ==
    [][ /\ (~not_turn_of(state, "player") /\ PlayerStep(<<"fold", 0>>))
            => Folded("player", state, state')
        /\ (~not_turn_of(state, "ai") /\ AiStep([action |-> "fold"]))
            => Folded("ai", state, state') ]_vars

\* the player folded on the turn after a raise: the AI holds the pot
C5_Witness ==
    /\ state.finished /\ state.player_folded /\ state.winner = "ai"
    /\ state.phase = "turn" /\ state.pot = 0 /\ state.ai_chips > 1020

\* the payout of _finish_hand applied to the state mid
Paid(mid, after) ==
    /\ after.pot = 0
    /\ after.winner \in {"player", "ai", "tie"}
    /\ after.winner = "player"
          => /\ after.player_chips = mid.player_chips + mid.pot
             /\ after.ai_chips = mid.ai_chips
    /\ after.winner = "ai"
          => /\ after.ai_chips = mid.ai_chips + mid.pot
             /\ after.player_chips = mid.player_chips
    /\ after.winner = "tie"
          => /\ after.player_chips = mid.player_chips + (mid.pot \div 2)
             /\ after.ai_chips = mid.ai_chips + (mid.pot \div 2)

\* C6: in the step in which the hand becomes finished the pot is paid out and
\* set to 0: in full to the winner, the other side unchanged, or pot \div 2
\* to each side on a tie.
C6_PotPaidOut ==
    [][ /\ \A c \in PlayerCalls :
              (~state.finished /\ state'.finished /\ PlayerStep(c))
              => Paid(player_apply(state, c[1], c[2]).state, state')
        /\ \A d \in Decisions :
              (~state.finished /\ state'.finished /\ AiStep(d))
              => Paid(ai_apply(state, d).state, state') ]_vars

\* a showdown tie after a raise was called: the pot was split
C6_Witness ==
    /\ state.finished /\ state.winner = "tie" /\ state.phase = "showdown"
    /\ raises > 0 /\ state.pot = 0
    /\ state.player_chips = 1000 /\ state.ai_chips = 1000

\* the hand new_game leaves when called on the state before
NewHand(before, after) ==
    LET sb == after.small_blind
        bb == after.big_blind
    IN  /\ after.dealer_is_player = ~before.dealer_is_player
        /\ after.phase = "preflop" /\ ~after.finished
        /\ Len(after.player_hand) = 2 /\ Len(after.ai_hand) = 2
        /\ after.community_cards = <<>>
        /\ after.pot = sb + bb /\ after.current_bet = bb
        /\ IF after.dealer_is_player
           THEN /\ after.player_bet = sb /\ after.ai_bet = bb
                /\ after.player_chips = before.player_chips - sb
                /\ after.ai_chips = before.ai_chips - bb
                /\ after.turn = "player"
                /\ after.ai_acted /\ ~after.player_acted
           ELSE /\ after.ai_bet = sb /\ after.player_bet = bb
                /\ after.ai_chips = before.ai_chips - sb
                /\ after.player_chips = before.player_chips - bb
                /\ after.turn = "ai"
                /\ after.player_acted /\ ~after.ai_acted

\* the state new_game is called on by this step
NewGameEntry ==
    IF state.player_chips <= 0 \/ state.ai_chips <= 0 THEN reset_chips(state) ELSE state

\* C7: every new_game flips the dealer and leaves a preflop hand, unfinished,
\* two hole cards each, empty board, blinds posted and deducted, pot = small
\* + big blind, current_bet = big blind, the dealer to act, the big blind
\* marked as having acted and the dealer not.
C7_NewGame ==
    /\ NewHand(PokerStateDefault, state)
    /\ [][ hands' = hands + 1 => NewHand(NewGameEntry, state') ]_vars

\* the second hand right after its deal, the button back with the player
C7_Witness ==
    /\ hands = 2 /\ result = Msg1("None")
    /\ state.dealer_is_player /\ state.turn = "player"
    /\ state.player_bet = 10 /\ state.ai_bet = 20

\* the other side owes a response: it is to act and has not acted
Pending(st, side) ==
    /\ ~st.finished /\ st.turn = side
    /\ ~(IF side = "player" THEN st.player_acted ELSE st.ai_acted)

\* C8: after a raise, or an all_in above current_bet, the other side's acted
\* flag is false and it is the other side's turn; while that holds the phase
\* does not advance except by an action of the other side.
C8_RaiseForcesResponse ==
    [][ /\ \A c \in PlayerCalls :
              ( /\ ~not_turn_of(state, "player")
                /\ \/ c[1] = "raise"
                   \/ c[1] = "all_in"
                        /\ state.player_bet + state.player_chips > state.current_bet
                /\ PlayerStep(c) )
              => Pending(state', "ai") /\ state'.phase = state.phase
        /\ \A d \in Decisions :
              ( /\ ~not_turn_of(state, "ai")
                /\ ai_apply(state, d).ret[1] = "raise"
                /\ AiStep(d) )
              => Pending(state', "player") /\ state'.phase = state.phase
        /\ (Pending(state, "ai") /\ hands' = hands /\ state'.phase # state.phase)
              => \E d \in Decisions : AiStep(d) /\ ai_apply(state, d).then = "next"
        /\ (Pending(state, "player") /\ hands' = hands /\ state'.phase # state.phase)
              => \E c \in PlayerCalls :
                    PlayerStep(c) /\ player_apply(state, c[1], c[2]).then = "next"
      ]_vars

\* the player has just raised on the flop and the AI has to answer
C8_Witness ==
    /\ Returned("You raised to $") /\ state.phase = "flop"
    /\ state.turn = "ai" /\ ~state.ai_acted /\ state.player_acted
    /\ state.current_bet = state.player_bet /\ state.ai_bet < state.current_bet

\* C9: player_action on a finished hand or out of turn, and ai_action on a
\* finished hand or out of turn, change no field and no card and return
\* 'Not your turn' / ('none', '').
C9_OutOfTurnNoOp ==
    [][ /\ ( /\ (state.finished \/ state.turn # "player")
              /\ \E c \in PlayerCalls : PlayerStep(c) )
              => /\ state' = state /\ deck' = deck
                 /\ result' = <<"Not your turn">>
        /\ ( /\ (state.finished \/ state.turn # "ai")
              /\ \E d \in Decisions : AiStep(d) )
              => /\ state' = state /\ deck' = deck
                 /\ result' = <<"none", <<>>>> ]_vars

\* player_action was refused on a hand finished at the showdown with the
\* turn left on the player
C9_Witness ==
    /\ result = <<"Not your turn">>
    /\ state.finished /\ state.turn = "player" /\ state.phase = "showdown"

\* C10: player_action('check') while a call is owed is refused with a message
\* and changes nothing: the player is not marked as having acted and keeps
\* the turn.
C10_CheckRefused ==
    [][ ( /\ ~state.finished /\ state.turn = "player"
          /\ state.player_bet < state.current_bet
          /\ PlayerStep(<<"check", 0>>) )
        => /\ state' = state /\ deck' = deck
           /\ state'.turn = "player" /\ state'.player_acted = state.player_acted
           /\ result' = <<"Cannot check, must call or raise">> ]_vars

\* a check was refused while the player owed a call and had not acted
C10_Witness ==
    /\ result = <<"Cannot check, must call or raise">>
    /\ ~state.finished /\ state.turn = "player" /\ ~state.player_acted
    /\ state.player_bet < state.current_bet

\* C11: an ai_action decision 'check' given while a call is owed
\* (current_bet > ai_bet) leaves the state the decision 'call' leaves from
\* the same starting state, and is reported as a call.
C11_CheckAppliedAsCall ==
    [][ ( /\ ~not_turn_of(state, "ai")
          /\ state.current_bet > state.ai_bet
          /\ AiStep([action |-> "check"]) )
        => /\ state' = ai_action(state, deck, [action |-> "call"]).state
           /\ deck' = ai_action(state, deck, [action |-> "call"]).deck
           /\ Returned("call")' ]_vars

\* the AI has paid the 10 it owed on the small blind and the flop is dealt
C11_Witness ==
    /\ result = <<"call", Msg2("AI calls $", 10)>>
    /\ state.phase = "flop" /\ state.pot = 40 /\ state.ai_chips = 980

\* the requested raise of a decision
RaiseAmount(d) == get(d, "raise_amount", 40)

\* C12: for either side a raise requested below big_blind is applied as a
\* raise of big_blind: when the raiser's chips cover the call and the big
\* blind, current_bet grows by at least big_blind.
C12_MinRaise ==
    [][ /\ \A c \in PlayerCalls :
              ( /\ ~not_turn_of(state, "player")
                /\ c[1] = "raise" /\ c[2] < state.big_blind
                /\ state.player_chips >=
                      state.current_bet - state.player_bet + state.big_blind
                /\ PlayerStep(c) )
              => state'.current_bet >= state.current_bet + state.big_blind
        /\ \A d \in Decisions :
              ( /\ ~not_turn_of(state, "ai")
                /\ get(d, "action", "call") = "raise"
                /\ RaiseAmount(d) < state.big_blind
                /\ state.ai_chips >=
                      state.current_bet - state.ai_bet + state.big_blind
                /\ AiStep(d) )
              => state'.current_bet >= state.current_bet + state.big_blind ]_vars

\* the decision names none of the actions ai_action knows
Malformed(d) ==
    "action" \notin DOMAIN d \/ d.action \notin {"fold", "check", "call", "raise"}

\* C13: on the AI's turn of an unfinished hand a malformed decision is
\* applied as a check when nothing is owed and as a call otherwise: the
\* state is never left unchanged with the turn still on the AI.
C13_MalformedDefault ==
    [][ \A d \in Decisions :
          ( /\ ~not_turn_of(state, "ai")
            /\ Malformed(d)
            /\ AiStep(d) )
          => /\ state' = ai_action(state, deck,
                      IF state.current_bet > state.ai_bet
                      THEN [action |-> "call"] ELSE [action |-> "check"]).state
             /\ ~(state' = state /\ state'.turn = "ai") ]_vars

(***************************************************************************)
(* Part 5: blackjack/state.py and blackjack/rules.py                       *)
(***************************************************************************)
\* Hand(owner=..., cards=[...])
Hand(owner, cards) == [owner |-> owner, cards |-> cards]

\* int(rank) for the ranks that are numbers
IntOf(rank) ==
    CASE rank = "2" -> 2 [] rank = "3" -> 3 [] rank = "4" -> 4
      [] rank = "5" -> 5 [] rank = "6" -> 6 [] rank = "7" -> 7
      [] rank = "8" -> 8 [] rank = "9" -> 9 [] rank = "10" -> 10

RECURSIVE CountCards(_, _, _)
\* hand_value, the for loop: total and aces after the cards from i on
CountCards(cards, i, acc) ==
    IF i > Len(cards) THEN acc
    ELSE LET rank == cards[i].rank
         IN  CountCards(cards, i + 1,
                IF rank \in {"J", "Q", "K"}
                  THEN [acc EXCEPT !.total = @ + 10]
                ELSE IF rank = "A"
                  THEN [total |-> acc.total + 11, aces |-> acc.aces + 1]
                ELSE [acc EXCEPT !.total = @ + IntOf(rank)])

\* hand_value with every ace left at 11 (the while loop never entered)
SoftenAces_never(total, aces) == total

RECURSIVE SoftenAces(_, _)
\* hand_value, the while loop: while total > 21 and aces > 0
SoftenAces(total, aces) ==
    IF total > 21 /\ aces > 0 THEN SoftenAces(total - 10, aces - 1) ELSE total

\* hand_value(hand)
hand_value(hand) ==
    LET acc == CountCards(hand.cards, 1, [total |-> 0, aces |-> 0])
    IN  SoftenAces(acc.total, acc.aces)

\* is_bust(hand)
is_bust(hand) == hand_value(hand) > 21

\* is_blackjack for any two cards
is_blackjack_any_pair(hand) == Len(hand.cards) = 2

\* is_blackjack(hand)
is_blackjack(hand) == Len(hand.cards) = 2 /\ hand_value(hand) = 21

(***************************************************************************)
(* Part 6: blackjack/controller.py                                         *)
(***************************************************************************)
\* number of cards of the first draws of a Blackjack deck that the model varies
MaxTop == 6

\* the ranks these first draws are taken from
TopRanks == {"A", "5", "9", "K"}

\* the i-th card of a sequence of ranks: its suit is the next suit of that
\* rank not yet used, so that no card occurs twice
TopCards(ranks) ==
    [i \in 1..Len(ranks) |->
        Card(SUITS[Cardinality({j \in 1..i : ranks[j] = ranks[i]})], ranks[i])]

\* the orders of the first MaxTop draws that the shuffles of the model
\* produce for Blackjack: every sequence over TopRanks a deck can hold
BlackjackTops ==
    { TopCards(ranks) : ranks \in
        { r \in [1..MaxTop -> TopRanks] :
            \A k \in TopRanks : Cardinality({j \in 1..MaxTop : r[j] = k}) <= Len(SUITS) } }

\* Deck() in BlackjackController.new_game: the possible fresh decks
BlackjackDeck ==
    { Without(DeckCards, SeqToSet(top)) \o Reverse(top) : top \in BlackjackTops }

\* Deck() when new_game is called again on the table: of the fresh decks the
\* model keeps those that deal an ace or a five as first card and a king as
\* second card to each side, and fives after the deal (a natural for both,
\* for one or for no side)
BlackjackRedeal ==
    { Without(DeckCards, SeqToSet(top)) \o Reverse(top) :
        top \in { t \in BlackjackTops :
                    /\ t[1].rank \in {"A", "5"} /\ t[2].rank \in {"A", "5"}
                    /\ t[3].rank = "K" /\ t[4].rank = "K"
                    /\ \A i \in 5..MaxTop : t[i].rank = "5" } }

\* the position of a suit in SUITS
SuitIndex(s) == CHOOSE i \in 1..Len(SUITS) : SUITS[i] = s

\* Deck.draw: the card popped from the end and the cards left.  A hand is
\* over long before 52 cards are drawn, so the IndexError of an empty deck
\* has no run.
draw(dk) == [card |-> dk[Len(dk)], deck |-> SubSeq(dk, 1, Len(dk) - 1)]

\* BlackjackState(deck, player_hand, ai_hand, current_turn)
BlackjackState(dk, player_hand, ai_hand, current_turn) ==
    [deck |-> dk, player_hand |-> player_hand, ai_hand |-> ai_hand,
     current_turn |-> current_turn,
     finished |-> FALSE, winner |-> "none", initial_deal_done |-> FALSE]

\* BlackjackController._finish_game
_finish_game(st, winner) == [st EXCEPT !.finished = TRUE, !.winner = winner]

\* state.player_hand.cards.append(state.deck.draw())
player_draws(st) ==
    LET d == draw(st.deck)
    IN  [st EXCEPT !.deck = d.deck,
                   !.player_hand.cards = Append(@, d.card)]

\* state.ai_hand.cards.append(state.deck.draw())
ai_draws(st) ==
    LET d == draw(st.deck)
    IN  [st EXCEPT !.deck = d.deck,
                   !.ai_hand.cards = Append(@, d.card)]

\* the initial deal with both cards of the player dealt before the AI's
_deal_initial_cards_player_first(st) ==
    LET dealt == [ai_draws(ai_draws(player_draws(player_draws(st))))
                    EXCEPT !.initial_deal_done = TRUE]
        p_bj == is_blackjack(dealt.player_hand)
        a_bj == is_blackjack(dealt.ai_hand)
    IN  IF p_bj /\ a_bj THEN _finish_game(dealt, "push")
        ELSE IF p_bj THEN _finish_game(dealt, "player")
        ELSE IF a_bj THEN _finish_game(dealt, "ai")
        ELSE dealt

\* BlackjackController._deal_initial_cards
_deal_initial_cards(st) ==
    LET dealt == [ai_draws(player_draws(ai_draws(player_draws(st))))
                    EXCEPT !.initial_deal_done = TRUE]
        p_bj == is_blackjack(dealt.player_hand)
        a_bj == is_blackjack(dealt.ai_hand)
    IN  IF p_bj /\ a_bj THEN _finish_game(dealt, "push")
        ELSE IF p_bj THEN _finish_game(dealt, "player")
        ELSE IF a_bj THEN _finish_game(dealt, "ai")
        ELSE dealt

\* BlackjackController.new_game with the fresh deck it shuffled
blackjack_new_game(fresh) ==
    _deal_initial_cards(
        BlackjackState(fresh, Hand("player", <<>>), Hand("ai", <<>>), "player"))

\* the entry test of player_hit / player_stand without the test for a
\* finished hand
not_players_move_when_finished(st) == st.current_turn # "player"

\* player_hit / player_stand, first statement
not_players_move(st) == st.finished \/ st.current_turn # "player"

\* player_hit that never declares a bust
player_hit_no_bust(st) ==
    IF not_players_move(st) THEN st ELSE player_draws(st)

\* BlackjackController.player_hit
player_hit(st) ==
    IF not_players_move(st) THEN st
    ELSE LET hit == player_draws(st)
         IN  IF is_bust(hit.player_hand) THEN _finish_game(hit, "ai") ELSE hit

\* BlackjackController.player_stand
player_stand(st) ==
    IF not_players_move(st) THEN st ELSE [st EXCEPT !.current_turn = "ai"]

RECURSIVE ai_hits_below(_, _)
\* ai_play_out, the while loop: hit while the AI total is below limit
ai_hits_below(st, limit) ==
    IF hand_value(st.ai_hand) < limit
    THEN LET hit == ai_draws(st)
         IN  IF is_bust(hit.ai_hand) THEN _finish_game(hit, "player")
             ELSE ai_hits_below(hit, limit)
    ELSE st

\* the AI standing on 16
ai_hits_stand_on_16(st) == ai_hits_below(st, 16)

\* ai_play_out, lines 78-82: while hand_value(ai_hand) < 17
ai_hits(st) == ai_hits_below(st, 17)

\* the comparison of the totals that ends ai_play_out and ai_stand_and_resolve
resolve(st) ==
    LET p == hand_value(st.player_hand)
        a == hand_value(st.ai_hand)
    IN  IF p > a THEN _finish_game(st, "player")
        ELSE IF a > p THEN _finish_game(st, "ai")
        ELSE _finish_game(st, "push")

\* BlackjackController.ai_play_out
ai_play_out(st) ==
    IF st.finished \/ st.current_turn # "ai" THEN st
    ELSE LET stood == ai_hits(st)
         IN  IF stood.finished THEN stood ELSE resolve(stood)

\* ai_stand_and_resolve without the test for a finished hand
ai_stand_and_resolve_unguarded(st) == resolve(st)

\* BlackjackController.ai_stand_and_resolve
ai_stand_and_resolve(st) ==
    IF st.finished THEN st ELSE resolve(st)

(***************************************************************************)
(* The Blackjack table: the calls a driver can make on the controller.     *)
(***************************************************************************)
\* the poker table is not in use
PokerIdle ==
    /\ state = <<>> /\ deck = <<>> /\ result = <<>>
    /\ hands = 0 /\ raises = 0

\* BlackjackController.__init__: new_game()
BlackjackInit ==
    /\ \E fresh \in BlackjackDeck :
          shuffled = fresh /\ bj = blackjack_new_game(fresh)
    /\ calc = <<>>
    /\ PokerIdle
    /\ RestIdle

BlackjackNewGame ==
    /\ \E fresh \in BlackjackRedeal :
          shuffled' = fresh /\ bj' = blackjack_new_game(fresh)
    /\ UNCHANGED <<calc, poker_vars, rest_vars>>

PlayerHit ==
    /\ bj' = player_hit(bj)
    /\ UNCHANGED <<shuffled, calc, poker_vars, rest_vars>>

PlayerStand ==
    /\ bj' = player_stand(bj)
    /\ UNCHANGED <<shuffled, calc, poker_vars, rest_vars>>

AiPlayOut ==
    /\ bj' = ai_play_out(bj)
    /\ UNCHANGED <<shuffled, calc, poker_vars, rest_vars>>

AiStandAndResolve ==
    /\ bj' = ai_stand_and_resolve(bj)
    /\ UNCHANGED <<shuffled, calc, poker_vars, rest_vars>>

BlackjackNext ==
    \/ BlackjackNewGame
    \/ PlayerHit
    \/ PlayerStand
    \/ AiPlayOut
    \/ AiStandAndResolve

BlackjackSpec == BlackjackInit /\ [][BlackjackNext]_vars

(***************************************************************************)
(* The rules applied to the hands that can be dealt card by card.          *)
(***************************************************************************)
\* number of cards of the hands that the rules are applied to
MaxCards == 4

\* what rules.py computes for the hand that holds cards
Rules(cards) ==
    [cards |-> cards,
     value |-> hand_value(Hand("player", cards)),
     bust |-> is_bust(Hand("player", cards)),
     blackjack |-> is_blackjack(Hand("player", cards))]

\* the Blackjack table is not in use
BlackjackIdle == bj = <<>> /\ shuffled = <<>>

\* Hand(owner="player"): no cards yet
RulesInit ==
    /\ calc = Rules(<<>>)
    /\ BlackjackIdle
    /\ PokerIdle
    /\ RestIdle

\* a card of rank r that the hand does not hold yet is appended to the
\* hand, and the rules are applied to the hand
TakeCard(r) ==
    /\ Len(calc.cards) < MaxCards
    /\ \E s \in SeqToSet(SUITS) :
          /\ Card(s, r) \notin SeqToSet(calc.cards)
          /\ \A t \in SeqToSet(SUITS) :
                (Card(t, r) \notin SeqToSet(calc.cards)) => SuitIndex(s) <= SuitIndex(t)
          /\ calc' = Rules(Append(calc.cards, Card(s, r)))
    /\ UNCHANGED <<bj, shuffled, poker_vars, rest_vars>>

RulesNext == \E r \in SeqToSet(RANKS) : TakeCard(r)

RulesSpec == RulesInit /\ [][RulesNext]_vars

(***************************************************************************)
(* Part 7: properties of the Blackjack engine                              *)
(***************************************************************************)
\* the hand new_game leaves when Deck() shuffled the cards as fresh
DealtFrom(fresh, st) ==
    LET n == Len(fresh)
        p21 == hand_value(st.player_hand) = 21
        a21 == hand_value(st.ai_hand) = 21
    IN  /\ n = 52 /\ SeqToSet(fresh) = SeqToSet(DeckCards)
        /\ st.player_hand.cards = <<fresh[n], fresh[n - 2]>>
        /\ st.ai_hand.cards = <<fresh[n - 1], fresh[n - 3]>>
        /\ st.deck = SubSeq(fresh, 1, n - 4)
        /\ (p21 /\ a21) => (st.finished /\ st.winner = "push")
        /\ (p21 /\ ~a21) => (st.finished /\ st.winner = "player")
        /\ (~p21 /\ a21) => (st.finished /\ st.winner = "ai")
        /\ (~p21 /\ ~a21)
              => (~st.finished /\ st.winner = "none" /\ st.current_turn = "player")

\* C14: after new_game each hand holds the two cards dealt alternately
\* (player, ai, player, ai) from a fresh 52-card deck; two totals of 21 finish
\* the hand as a push, one total of 21 finishes it with that side as winner,
\* none leaves it unfinished, winner 'none', on the player's turn.
C14_InitialDeal ==
    /\ DealtFrom(shuffled, bj)
    /\ [][ BlackjackNewGame => DealtFrom(shuffled', bj') ]_vars

\* both sides were dealt an ace and a king: a push on the deal
C14_Witness ==
    /\ bj.finished /\ bj.winner = "push" /\ Len(bj.deck) = 48
    /\ is_blackjack(bj.player_hand) /\ is_blackjack(bj.ai_hand)

\* C15: player_hit and player_stand called after finished is true change
\* nothing: hands, deck, current_turn, finished and winner keep their values,
\* however often they are called.
C15_TerminalNoOp ==
    [][ (bj.finished /\ (PlayerHit \/ PlayerStand)) => bj' = bj ]_vars

\* the player went bust: the hand is finished with the turn still on the player
C15_Witness ==
    /\ bj.finished /\ bj.winner = "ai" /\ bj.current_turn = "player"
    /\ is_bust(bj.player_hand) /\ Len(bj.player_hand.cards) = 3

\* a step of the hand on the table: one of the four calls, not a new_game
HandStep == PlayerHit \/ PlayerStand \/ AiPlayOut \/ AiStandAndResolve

\* C16: within one hand, under any sequence of player_hit, player_stand,
\* ai_play_out and ai_stand_and_resolve, winner leaves 'none' at most once
\* and does so in the step in which finished becomes true; afterwards
\* finished stays true, winner keeps its value and no hand gains a card.
C16_WinnerSetOnce ==
    /\ [](bj.finished <=> bj.winner # "none")
    /\ [][ HandStep
            => /\ bj'.winner # bj.winner
                    => (bj.winner = "none" /\ ~bj.finished /\ bj'.finished)
               /\ (~bj.finished /\ bj'.finished) => bj'.winner # "none"
               /\ bj.finished
                    => /\ bj'.finished /\ bj'.winner = bj.winner
                       /\ bj'.player_hand = bj.player_hand
                       /\ bj'.ai_hand = bj.ai_hand ]_vars

\* the AI stood on 17 to 21 and lost the comparison to the player
C16_Witness ==
    /\ bj.finished /\ bj.winner = "player" /\ bj.current_turn = "ai"
    /\ hand_value(bj.ai_hand) >= 17 /\ hand_value(bj.ai_hand) <= 21
    /\ hand_value(bj.player_hand) > hand_value(bj.ai_hand)

\* the ranks of a hand, in the order the cards were taken
RanksOf(cards) == [i \in 1..Len(cards) |-> cards[i].rank]

\* the value of a card with an ace counted as 1
PipValue(rank) ==
    IF rank = "A" THEN 1
    ELSE IF rank \in {"J", "Q", "K"} THEN 10
    ELSE IntOf(rank)

RECURSIVE HardTotal(_)
\* the total of a hand with every ace counted as 1
HardTotal(ranks) ==
    IF ranks = <<>> THEN 0 ELSE PipValue(Head(ranks)) + HardTotal(Tail(ranks))

\* the totals of a hand over the choices of 1 or 11 for each of its aces
Totals(ranks) ==
    {HardTotal(ranks) + 10 * k :
        k \in 0..Cardinality({i \in 1..Len(ranks) : ranks[i] = "A"})}

\* the standard total: the largest total not above 21, or the total with
\* every ace counted as 1 when all totals are above 21
StandardTotal(ranks) ==
    LET fit == {t \in Totals(ranks) : t <= 21}
    IN  IF fit = {} THEN HardTotal(ranks)
        ELSE CHOOSE t \in fit : \A u \in fit : u <= t

\* C17: hand_value is the standard soft/hard total of the hand; [A,A,9] and
\* [A,A,A,8] are worth 21, [10,10,5] is worth 25; is_bust holds exactly when
\* the total is above 21.
C17_HandValue ==
    LET ranks == RanksOf(calc.cards)
    IN  /\ calc.value = StandardTotal(ranks)
        /\ calc.bust <=> StandardTotal(ranks) > 21
        /\ ranks = <<"A", "A", "9">> => calc.value = 21
        /\ ranks = <<"A", "A", "A", "8">> => calc.value = 21
        /\ ranks = <<"10", "10", "5">> => (calc.value = 25 /\ calc.bust)

\* three aces and an eight: one ace counts 11, two count 1
C17_Witness ==
    /\ RanksOf(calc.cards) = <<"A", "A", "A", "8">>
    /\ calc.value = 21 /\ ~calc.bust

\* C18 as stated: the two-card hand [K,Q] has hand_value 20 and is_blackjack
\* classifies it as a natural Blackjack.
C18_KingQueenNatural ==
    RanksOf(calc.cards) = <<"K", "Q">> => (calc.value = 20 /\ calc.blackjack)

\* C18 as amended: the two-card hand [K,Q] has hand_value 20 and is_blackjack
\* does not classify it as a natural Blackjack.
C18_KingQueenTwenty ==
    RanksOf(calc.cards) = <<"K", "Q">> => (calc.value = 20 /\ ~calc.blackjack)

\* the hand [K,Q] with the rules applied
C18_Witness ==
    /\ RanksOf(calc.cards) = <<"K", "Q">>
    /\ calc.value = 20 /\ ~calc.bust

\* C19: player_hit on the player's turn of an unfinished hand moves exactly
\* one card from the deck into the player's hand and leaves the AI hand
\* unchanged; a total above 21 finishes the hand with winner 'ai', otherwise
\* the hand stays unfinished on the player's turn; on the AI's turn
\* player_hit changes nothing.
C19_PlayerHit ==
    [][ PlayerHit
        => IF ~bj.finished /\ bj.current_turn = "player"
           THEN /\ Len(bj.deck) >= 1
                /\ bj'.player_hand.cards =
                      Append(bj.player_hand.cards, bj.deck[Len(bj.deck)])
                /\ bj'.deck = SubSeq(bj.deck, 1, Len(bj.deck) - 1)
                /\ bj'.ai_hand = bj.ai_hand
                /\ IF StandardTotal(RanksOf(bj'.player_hand.cards)) > 21
                   THEN bj'.finished /\ bj'.winner = "ai"
                   ELSE /\ ~bj'.finished /\ bj'.winner = "none"
                        /\ bj'.current_turn = "player"
           ELSE bj.current_turn = "ai" => bj' = bj ]_vars

\* the player took a third card and is still in the hand
C19_Witness ==
    /\ Len(bj.player_hand.cards) = 3 /\ Len(bj.ai_hand.cards) = 2
    /\ ~bj.finished /\ bj.current_turn = "player"
    /\ hand_value(bj.player_hand) <= 21 /\ Len(bj.deck) = 47

\* the AI total after the first n cards of its hand
AiTotal(st, n) == StandardTotal(RanksOf(SubSeq(st.ai_hand.cards, 1, n)))

\* C20: ai_play_out on the AI's turn of an unfinished hand draws one card at
\* a time for the AI exactly while its total is below 17 and ends with
\* finished true: winner 'player' if the AI total is above 21; otherwise the
\* AI total is 17 to 21 and the higher total wins, equal totals are a push.
\* On the player's turn it changes nothing.
C20_AiPlayOut ==
    [][ AiPlayOut
        => IF ~bj.finished /\ bj.current_turn = "ai"
           THEN LET had == Len(bj.ai_hand.cards)
                    has == Len(bj'.ai_hand.cards)
                    a == AiTotal(bj', has)
                    p == StandardTotal(RanksOf(bj.player_hand.cards))
                IN  /\ has >= had /\ Len(bj.deck) >= has - had
                    /\ bj'.ai_hand.cards = bj.ai_hand.cards \o
                          [i \in 1..(has - had) |-> bj.deck[Len(bj.deck) + 1 - i]]
                    /\ bj'.deck = SubSeq(bj.deck, 1, Len(bj.deck) - (has - had))
                    /\ \A n \in had..(has - 1) : AiTotal(bj', n) < 17
                    /\ a >= 17
                    /\ bj'.player_hand = bj.player_hand
                    /\ bj'.finished
                    /\ bj'.winner = IF a > 21 THEN "player"
                                    ELSE IF p > a THEN "player"
                                    ELSE IF a > p THEN "ai"
                                    ELSE "push"
           ELSE bj' = bj ]_vars

\* the AI drew two cards, stood on 17 to 21 and won the comparison
C20_Witness ==
    /\ bj.finished /\ bj.winner = "ai" /\ bj.current_turn = "ai"
    /\ Len(bj.ai_hand.cards) = 4
    /\ hand_value(bj.ai_hand) >= 17 /\ hand_value(bj.ai_hand) <= 21
    /\ hand_value(bj.ai_hand) > hand_value(bj.player_hand)

(***************************************************************************)
(* Part 8: war/rules.py, war/state.py and war/controller.py                *)
(***************************************************************************)
WAR_RANK_VALUES_ace_low ==
    [r \in SeqToSet(RANKS) |->
        CASE r = "2" -> 2 [] r = "3" -> 3 [] r = "4" -> 4 [] r = "5" -> 5
          [] r = "6" -> 6 [] r = "7" -> 7 [] r = "8" -> 8 [] r = "9" -> 9
          [] r = "10" -> 10 [] r = "J" -> 11 [] r = "Q" -> 12
          [] r = "K" -> 13 [] r = "A" -> 1]

\* war/rules.py RANK_VALUES: 2 is lowest, the ace is highest
WAR_RANK_VALUES ==
    [r \in SeqToSet(RANKS) |->
        CASE r = "2" -> 2 [] r = "3" -> 3 [] r = "4" -> 4 [] r = "5" -> 5
          [] r = "6" -> 6 [] r = "7" -> 7 [] r = "8" -> 8 [] r = "9" -> 9
          [] r = "10" -> 10 [] r = "J" -> 11 [] r = "Q" -> 12
          [] r = "K" -> 13 [] r = "A" -> 14]

\* war/rules.py card_value: RANK_VALUES.get(card.rank, 0)
war_card_value(card) == get(WAR_RANK_VALUES, card.rank, 0)

compare_cards_lower_wins(player_card, ai_card) ==
    LET player_val == war_card_value(player_card)
        ai_val == war_card_value(ai_card)
    IN  IF player_val < ai_val THEN "player"
        ELSE IF ai_val < player_val THEN "ai"
        ELSE "war"

compare_cards(player_card, ai_card) ==
    LET player_val == war_card_value(player_card)
        ai_val == war_card_value(ai_card)
    IN  IF player_val > ai_val THEN "player"
        ELSE IF ai_val > player_val THEN "ai"
        ELSE "war"

\* WarState(player_pile=..., ai_pile=...): the other fields at their defaults
WarState(player_pile, ai_pile) ==
    [player_pile |-> player_pile,
     ai_pile |-> ai_pile,
     player_battle_cards |-> <<>>,
     ai_battle_cards |-> <<>>,
     war_pot |-> <<>>,
     in_war |-> FALSE,
     finished |-> FALSE,
     winner |-> None,
     last_result |-> None]

\* WarController._finish_game
war_finish_game(st, winner) ==
    [st EXCEPT !.finished = TRUE, !.winner = winner]

\* WarController.new_game: Deck() has no attribute `cards` (the list is
\* Deck._cards), so the call raises AttributeError at `deck.cards` before
\* self.state is assigned.
war_new_game(st) == [state |-> st, ret |-> "AttributeError"]

\* random.shuffle(battle_cards): the orders the model lets it produce
ShuffleKinds == {"kept", "reversed"}

random_shuffle(cards, kind) ==
    IF kind = "reversed" THEN Reverse(cards) ELSE cards

RECURSIVE stake(_, _)
\* play_round, `for _ in range(3)`: n more rounds of the loop; each side
\* that still has cards moves its top card to the war pot, player first
stake(st, n) ==
    IF n = 0 THEN st
    ELSE LET a == IF st.player_pile # <<>>
                  THEN [st EXCEPT !.war_pot = Append(@, Head(st.player_pile)),
                                  !.player_pile = Tail(@)]
                  ELSE st
             b == IF a.ai_pile # <<>>
                  THEN [a EXCEPT !.war_pot = Append(@, Head(a.ai_pile)),
                                 !.ai_pile = Tail(@)]
                  ELSE a
         IN  stake(b, n - 1)

end_check_never(st) == st

\* play_round, the end check (lines 92-96)
end_check(st) ==
    IF st.player_pile = <<>> /\ ~st.in_war THEN war_finish_game(st, "ai")
    ELSE IF st.ai_pile = <<>> /\ ~st.in_war THEN war_finish_game(st, "player")
    ELSE st

\* play_round from the reveal on (lines 49-98); kind is the order that
\* random.shuffle gives to the cards the winner collects
battle(st, kind) ==
    LET player_card == Head(st.player_pile)
        ai_card == Head(st.ai_pile)
        revealed == [st EXCEPT !.player_pile = Tail(@),
                               !.ai_pile = Tail(@),
                               !.player_battle_cards = <<player_card>>,
                               !.ai_battle_cards = <<ai_card>>,
                               !.war_pot = <<>>]
        battle_cards == st.war_pot \o <<player_card, ai_card>>
        res == compare_cards(player_card, ai_card)
        after ==
            IF res = "player"
            THEN [revealed EXCEPT
                    !.player_pile = @ \o random_shuffle(battle_cards, kind),
                    !.last_result = "player_wins",
                    !.in_war = FALSE]
            ELSE IF res = "ai"
            THEN [revealed EXCEPT
                    !.ai_pile = @ \o random_shuffle(battle_cards, kind),
                    !.last_result = "ai_wins",
                    !.in_war = FALSE]
            ELSE stake([revealed EXCEPT !.war_pot = battle_cards,
                                        !.in_war = TRUE,
                                        !.last_result = "war"], 3)
    IN  [state |-> end_check(after), ret |-> after.last_result]

\* WarController.play_round
play_round(st, kind) ==
    IF st.finished THEN [state |-> st, ret |-> "game_over"]
    ELSE IF st.player_pile = <<>>
    THEN [state |-> war_finish_game(st, "ai"), ret |-> "game_over"]
    ELSE IF st.ai_pile = <<>>
    THEN [state |-> war_finish_game(st, "player"), ret |-> "game_over"]
    ELSE battle(st, kind)

(***************************************************************************)
(* The War table.  WarController() cannot deal (new_game raises), so the   *)
(* table starts from a WarState built with its two piles, as state.py      *)
(* allows: every side holds the same number of cards, no card twice.       *)
(***************************************************************************)
\* most cards a side starts with, and most play_round calls of a game
MaxPile == 5
MaxRounds == 3

\* the ranks of the cards on the War table, ascending
WarRanks == <<"2", "5", "A">>

PlayerSuits == <<"spades", "hearts">>

AiSuits == <<"clubs", "diamonds">>

\* the six cards of a side, in a ring: the first suit ascending, then the
\* second suit ascending
Ring(suits) ==
    [i \in 1..6 |-> Card(suits[1 + ((i - 1) \div 3)], WarRanks[1 + ((i - 1) % 3)])]

\* n cards of the ring from position o on, going round in steps of step
Run(suits, n, o, step) ==
    [i \in 1..n |-> Ring(suits)[1 + ((o - 1 + (i - 1) * step) % 6)]]

\* the piles of n cards a side can start with: the runs in either direction
Piles(suits, n) == {Run(suits, n, o, step) : o \in 1..6, step \in {1, 5}}

WarDeals ==
    UNION {{WarState(p, a) : p \in Piles(PlayerSuits, n), a \in Piles(AiSuits, n)} :
                n \in 1..MaxPile}

\* the poker table, the Blackjack table and the test benches are not in use
WarAlone ==
    /\ state = <<>> /\ deck = <<>> /\ result = <<>> /\ hands = 0 /\ raises = 0
    /\ bj = <<>> /\ shuffled = <<>> /\ calc = <<>>
    /\ pack = <<>> /\ bench = <<>> /\ view = <<>>

WarInit ==
    /\ war \in WarDeals
    /\ war_ret = None
    /\ rounds = 0
    /\ WarAlone

\* WarView.on_battle: play_round()
PlayRound ==
    /\ rounds < MaxRounds
    /\ rounds' = rounds + 1
    /\ \E kind \in ShuffleKinds :
          LET r == play_round(war, kind)
          IN  war' = r.state /\ war_ret' = r.ret
    /\ UNCHANGED <<poker_vars, blackjack_vars, pack, bench, view>>

\* WarView.on_new_game: new_game().  The NEW GAME button is pressed here
\* once the game on the table has ended.
WarNewGame ==
    /\ war.finished
    /\ UNCHANGED rounds
    /\ LET r == war_new_game(war)
       IN  war' = r.state /\ war_ret' = r.ret
    /\ UNCHANGED <<poker_vars, blackjack_vars, pack, bench, view>>

WarNext ==
    \/ PlayRound
    \/ WarNewGame

WarSpec == WarInit /\ [][WarNext]_vars

(***************************************************************************)
(* Part 9: properties of the War engine                                    *)
(***************************************************************************)
\* the cards of the five containers of a WarState, one after the other
AllHeld(st) ==
    st.player_pile \o st.ai_pile \o st.war_pot
        \o st.player_battle_cards \o st.ai_battle_cards

NoCardTwice(st) == Cardinality(SeqToSet(AllHeld(st))) = Len(AllHeld(st))

\* a play_round call has returned in this step
RoundPlayed == rounds' # rounds

\* both sides can reveal a card
CanReveal(st) == ~st.finished /\ st.player_pile # <<>> /\ st.ai_pile # <<>>

\* the order of the ranks in War: 2 is lowest, the ace is highest
WarOrder == <<"2", "3", "4", "5", "6", "7", "8", "9", "10", "J", "Q", "K", "A">>

Position(rank) == CHOOSE i \in 1..Len(WarOrder) : WarOrder[i] = rank

Outranks(c, d) == Position(c.rank) > Position(d.rank)

\* pile is what is left of old without its top card, followed by the cards
\* of won in some order
Collected(pile, old, won) ==
    /\ Len(pile) = Len(old) - 1 + Len(won)
    /\ SubSeq(pile, 1, Len(old) - 1) = Tail(old)
    /\ SeqToSet(SubSeq(pile, Len(old), Len(pile))) = SeqToSet(won)

\* C21: after new_game and after every play_round the five containers
\* (player_pile, ai_pile, war_pot, player_battle_cards, ai_battle_cards)
\* hold together as many cards as were dealt (52 for the full pack), and no
\* card is held by two of them at once.
C21_Conservation ==
    /\ [](NoCardTwice(war))
    /\ [][Len(AllHeld(war')) = Len(AllHeld(war))]_vars

\* C22: the game only ends when a side has no card and no war is pending:
\* finished implies that in_war is false and war_pot is empty, and a
\* play_round called while in_war is true does not end the game merely
\* because a pile is empty.
C22_EndsOutsideWar ==
    /\ [](war.finished => (~war.in_war /\ war.war_pot = <<>>))
    /\ [][ (RoundPlayed /\ war.in_war /\ ~war.finished) => ~war'.finished ]_vars

\* C23: when the two revealed top cards differ in rank, the side with the
\* higher rank receives at the end of its pile both revealed cards and every
\* card of the war pot, the other pile only loses its revealed card, war_pot
\* becomes empty, in_war becomes false and the result names that side.
C23_HigherRankCollects ==
    [][ (RoundPlayed /\ CanReveal(war)
            /\ Head(war.player_pile).rank # Head(war.ai_pile).rank)
        => LET p == Head(war.player_pile)
               a == Head(war.ai_pile)
               won == war.war_pot \o <<p, a>>
           IN  /\ war'.war_pot = <<>> /\ ~war'.in_war
               /\ IF Outranks(p, a)
                  THEN /\ Collected(war'.player_pile, war.player_pile, won)
                       /\ war'.ai_pile = Tail(war.ai_pile)
                       /\ war'.last_result = "player_wins"
                       /\ war_ret' = "player_wins"
                  ELSE /\ Collected(war'.ai_pile, war.ai_pile, won)
                       /\ war'.player_pile = Tail(war.player_pile)
                       /\ war'.last_result = "ai_wins"
                       /\ war_ret' = "ai_wins" ]_vars

\* the AI won the round that followed a war: it holds the ten cards staked
C23_Witness ==
    /\ rounds = 2 /\ war.last_result = "ai_wins"
    /\ war.player_pile = <<>> /\ Len(war.ai_pile) = 10
    /\ war.war_pot = <<>> /\ ~war.in_war

\* the cards a side stakes in a war: the (at most three) cards under its
\* revealed card
Staked(pile) == SubSeq(pile, 2, 1 + Min(3, Len(pile) - 1))

\* what is left of a pile after a war
Kept(pile) == SubSeq(pile, 2 + Min(3, Len(pile) - 1), Len(pile))

\* play_round has revealed the two top cards with the pot at stake: the pot
\* went to a pile with them, or it is the start of the new pot
AtStake(old, new) ==
    /\ CanReveal(old)
    /\ new.player_battle_cards = <<Head(old.player_pile)>>
    /\ new.ai_battle_cards = <<Head(old.ai_pile)>>
    /\ \/ new.war_pot = <<>>
             /\ \/ SeqToSet(old.war_pot) \subseteq SeqToSet(new.player_pile)
                \/ SeqToSet(old.war_pot) \subseteq SeqToSet(new.ai_pile)
       \/ SubSeq(new.war_pot, 1, Len(old.war_pot)) = old.war_pot

\* C24: when the two revealed cards have equal rank, no pile gains a card;
\* war_pot afterwards consists of the prior war_pot, the two revealed cards
\* and min(3, cards remaining) further cards from the top of each pile;
\* in_war is true and the result is 'war'; a following play_round compares
\* newly revealed cards with that pot still at stake.
C24_War ==
    /\ [][ (RoundPlayed /\ CanReveal(war)
               /\ Head(war.player_pile).rank = Head(war.ai_pile).rank)
           => /\ war'.player_pile = Kept(war.player_pile)
              /\ war'.ai_pile = Kept(war.ai_pile)
              /\ SubSeq(war'.war_pot, 1, Len(war.war_pot) + 2)
                    = war.war_pot \o <<Head(war.player_pile), Head(war.ai_pile)>>
              /\ Len(war'.war_pot)
                    = Len(war.war_pot) + 2 + Len(Staked(war.player_pile))
                        + Len(Staked(war.ai_pile))
              /\ SeqToSet(war'.war_pot)
                    = SeqToSet(war.war_pot)
                        \cup {Head(war.player_pile), Head(war.ai_pile)}
                        \cup SeqToSet(Staked(war.player_pile))
                        \cup SeqToSet(Staked(war.ai_pile))
              /\ war'.in_war /\ war'.last_result = "war" /\ war_ret' = "war" ]_vars
    /\ [][ (RoundPlayed /\ war.in_war /\ ~war.finished) => AtStake(war, war') ]_vars

\* C25: after a play_round in which a pile is empty while in_war is false,
\* finished is true and winner is the other side; finished is never true
\* while both piles are non-empty.
C25_Termination ==
    /\ [][ (RoundPlayed /\ ~war'.in_war
               /\ (war'.player_pile = <<>> \/ war'.ai_pile = <<>>))
           => /\ war'.finished
              /\ war'.winner = IF war'.player_pile = <<>> THEN "ai" ELSE "player" ]_vars
    /\ [](war.finished => (war.player_pile = <<>> \/ war.ai_pile = <<>>))

\* the AI lost its last card in a battle of the second round
C25_Witness ==
    /\ rounds = 2 /\ war.finished /\ war.winner = "player"
    /\ war.ai_pile = <<>> /\ war.player_pile # <<>>
    /\ ~war.in_war /\ war.last_result = "player_wins"

\* the table of the scenario: the ace of spades against the two of clubs
AceAgainstTwo ==
    war = WarState(<<Card("spades", "A")>>, <<Card("clubs", "2")>>)

\* C26 as stated: from player_pile = [A of spades], ai_pile = [2 of clubs]
\* with no war pending, a single play_round triggers no war, finishes the
\* game immediately, and the winner is the side whose pile held the 2 of
\* clubs.
C26_TwoOfClubsWins ==
    [][ (RoundPlayed /\ AceAgainstTwo)
        => /\ war_ret' # "war" /\ ~war'.in_war
           /\ war'.finished /\ war'.winner = "ai" ]_vars

\* C26 amended: from the same state a single play_round triggers no war,
\* finishes the game immediately, and the winner is the side whose pile held
\* the ace of spades, which collects both cards.
C26_AceOfSpadesWins ==
    [][ (RoundPlayed /\ AceAgainstTwo)
        => /\ war_ret' # "war" /\ ~war'.in_war
           /\ war'.finished /\ war'.winner = "player"
           /\ SeqToSet(war'.player_pile) = {Card("spades", "A"), Card("clubs", "2")}
           /\ war'.ai_pile = <<>> ]_vars

\* the single round of the scenario has been played
C26_Witness ==
    /\ rounds = 1 /\ war.finished
    /\ war.player_battle_cards = <<Card("spades", "A")>>
    /\ war.ai_battle_cards = <<Card("clubs", "2")>>
    /\ Len(war.player_pile) = 2 /\ war.ai_pile = <<>>

\* the cards of the two piles and the pot, one after the other
InPlay(st) == st.player_pile \o st.ai_pile \o st.war_pot

\* no card is in two of the three, or twice in one
HeldOnce(st) == Cardinality(SeqToSet(InPlay(st))) = Len(InPlay(st))

\* the piles and the pot between two calls: every card once, and cards in
\* the pot exactly while a war is pending
PilesAndPot ==
    /\ [](HeldOnce(war) /\ ((war.war_pot # <<>>) <=> war.in_war))
    /\ [][ RoundPlayed => SeqToSet(InPlay(war')) = SeqToSet(InPlay(war)) ]_vars

\* new_game has dealt: two piles of the same size, nothing in the pot
Split(st) ==
    /\ Len(st.player_pile) = Len(st.ai_pile) /\ st.player_pile # <<>>
    /\ st.war_pot = <<>> /\ ~st.in_war /\ ~st.finished

\* C38: from new_game's split into two piles of 26 on, player_pile, ai_pile
\* and war_pot are pairwise disjoint and hold each of the 52 cards exactly
\* once, and war_pot is non-empty exactly when in_war.
C38_SplitAndPartition ==
    /\ PilesAndPot
    /\ [][ WarNewGame => (war_ret' = None /\ Split(war')) ]_vars

(***************************************************************************)
(* Part 10: the Deck of app/core/cards.py and the Deck of                  *)
(* card_game/cards.py, drawn until they are empty and once more            *)
(***************************************************************************)
\* card_game/cards.py Deck.SUITS and Deck.VALUES
CG_SUITS == <<"Hearts", "Diamonds", "Clubs", "Spades">>

CG_VALUES == <<"2", "3", "4", "5", "6", "7", "8", "9", "10", "J", "Q", "K", "A">>

\* card_game/cards.py Card(suit, value)
cg_Card(s, v) == [suit |-> s, value |-> v]

\* card_game Deck.__init__ before the shuffle:
\* [Card(suit, value) for suit in self.SUITS for value in self.VALUES]
cg_DeckCards ==
    [i \in 1..(Len(CG_SUITS) * Len(CG_VALUES)) |->
        cg_Card(CG_SUITS[((i - 1) \div Len(CG_VALUES)) + 1],
                CG_VALUES[((i - 1) % Len(CG_VALUES)) + 1])]

\* the places where the shuffles of the model cut the list
Cuts == {0, 1, 26}

Cut(cards, k) == SubSeq(cards, k + 1, Len(cards)) \o SubSeq(cards, 1, k)

\* random.shuffle(cards) for a deck under test: the list or its reverse, cut
Shuffles(cards) == {Cut(c, k) : c \in {cards, Reverse(cards)}, k \in Cuts}

\* what a call returned: a card, None, or nothing because it raised
Outcome(error, returned, card) ==
    [error |-> error, returned |-> returned, card |-> card]

\* a Deck object of class cls with the outcome of its last draw and all the
\* cards its draws have returned
Pack(cls, cards, drawn, last) ==
    [cls |-> cls, cards |-> cards, drawn |-> drawn, last |-> last]

\* Deck(): the possible new decks of the two classes
NewPacks ==
    {Pack("core", d, <<>>, Outcome(None, "nothing", <<>>)) :
        d \in Deck \cup Shuffles(DeckCards)}
    \cup {Pack("card_game", d, <<>>, Outcome(None, "nothing", <<>>)) :
            d \in Shuffles(cg_DeckCards)}

core_draw_keeps_card(pk) ==
    IF pk.cards = <<>>
    THEN [pk EXCEPT !.last = Outcome("IndexError", "nothing", <<>>)]
    ELSE LET card == pk.cards[Len(pk.cards)]
         IN  [pk EXCEPT !.drawn = Append(@, card),
                        !.last = Outcome(None, "card", <<card>>)]

\* core/cards.py Deck.draw: raise IndexError when empty, else self._cards.pop()
core_draw(pk) ==
    IF pk.cards = <<>>
    THEN [pk EXCEPT !.last = Outcome("IndexError", "nothing", <<>>)]
    ELSE LET card == pk.cards[Len(pk.cards)]
         IN  [pk EXCEPT !.cards = SubSeq(@, 1, Len(@) - 1),
                        !.drawn = Append(@, card),
                        !.last = Outcome(None, "card", <<card>>)]

\* card_game/cards.py Deck.draw: self.cards.pop() if self.cards else None
cg_draw(pk) ==
    IF pk.cards # <<>>
    THEN LET card == pk.cards[Len(pk.cards)]
         IN  [pk EXCEPT !.cards = SubSeq(@, 1, Len(@) - 1),
                        !.drawn = Append(@, card),
                        !.last = Outcome(None, "card", <<card>>)]
    ELSE [pk EXCEPT !.last = Outcome(None, "None", <<>>)]

\* len(deck), __len__ of both classes
deck_len(pk) == Len(pk.cards)

\* the tables and the evaluator are not in use
DeckAlone ==
    /\ state = <<>> /\ deck = <<>> /\ result = <<>> /\ hands = 0 /\ raises = 0
    /\ bj = <<>> /\ shuffled = <<>> /\ calc = <<>>
    /\ war = <<>> /\ war_ret = <<>> /\ rounds = 0
    /\ bench = <<>> /\ view = <<>>

DeckInit ==
    /\ pack \in NewPacks
    /\ DeckAlone

\* draw() on the Deck of app/core/cards.py
CoreDraw ==
    /\ pack.cls = "core"
    /\ pack' = core_draw(pack)
    /\ UNCHANGED <<poker_vars, blackjack_vars, war_vars, bench, view>>

\* draw() on the Deck of card_game/cards.py
CgDraw ==
    /\ pack.cls = "card_game"
    /\ pack' = cg_draw(pack)
    /\ UNCHANGED <<poker_vars, blackjack_vars, war_vars, bench, view>>

DeckNext ==
    \/ CoreDraw
    \/ CgDraw

DeckSpec == DeckInit /\ [][DeckNext]_vars

(***************************************************************************)
(* Part 11: properties of the decks                                        *)
(***************************************************************************)
\* the 52 (suit, rank) pairs
AllPairs == {Card(s, r) : s \in SeqToSet(SUITS), r \in SeqToSet(RANKS)}

\* C27: a new Deck holds each of the 52 (suit, rank) pairs exactly once
\* whatever the shuffle; every draw removes exactly one card and lowers len
\* by one; drawing 52 times returns 52 pairwise distinct cards that together
\* are the full set, leaving the deck empty.
C27_DeckComplete ==
    /\ []((pack.cls = "core" /\ pack.drawn = <<>>)
            => /\ deck_len(pack) = 52
               /\ SeqToSet(pack.cards) = AllPairs
               /\ Cardinality(AllPairs) = 52)
    /\ [][ (pack.cls = "core" /\ pack.cards # <<>>)
            => /\ deck_len(pack') = deck_len(pack) - 1
               /\ pack'.last.returned = "card"
               /\ pack'.last.card[1] \in SeqToSet(pack.cards)
               /\ SeqToSet(pack'.cards) = SeqToSet(pack.cards) \ {pack'.last.card[1]}
               /\ pack'.drawn = Append(pack.drawn, pack'.last.card[1]) ]_vars
    /\ []((pack.cls = "core" /\ Len(pack.drawn) = 52)
            => /\ SeqToSet(pack.drawn) = AllPairs
               /\ Cardinality(SeqToSet(pack.drawn)) = 52
               /\ pack.cards = <<>> /\ deck_len(pack) = 0)

\* the 52nd draw has returned a card
C27_Witness ==
    /\ pack.cls = "core" /\ Len(pack.drawn) = 52
    /\ pack.last.returned = "card" /\ pack.cards = <<>>

\* C28: for both Deck classes, draw() on a deck with no cards left fails
\* with an error, returns no value, and leaves the deck empty.
C28_EmptyDrawFails ==
    [][ pack.cards = <<>>
        => /\ pack'.last.error # None
           /\ pack'.last.returned = "nothing"
           /\ pack'.cards = <<>> ]_vars

(***************************************************************************)
(* Part 12: evaluate_hand and compare_hands applied to the hands of two    *)
(* players while the board is revealed card by card                        *)
(***************************************************************************)
\* number of cards of BoardPool that can come on the board
MaxPool == 9

\* community cards of a full board: flop (3), turn, river
BoardSize == 5

\* the hole cards dealt in the model: player, ai
HoleDeals ==
    { << <<Card("spades", "A"), Card("spades", "K")>>,
         <<Card("hearts", "A"), Card("hearts", "K")>> >>,
      << <<Card("hearts", "2"), Card("diamonds", "2")>>,
         <<Card("hearts", "A"), Card("hearts", "K")>> >>,
      << <<Card("spades", "K"), Card("spades", "9")>>,
         <<Card("hearts", "A"), Card("hearts", "K")>> >>,
      << <<Card("spades", "A"), Card("spades", "K")>>,
         <<Card("diamonds", "K"), Card("diamonds", "9")>> >> }

\* the cards that can come on the board, in the order the model reveals them
BoardPool ==
    << Card("spades", "10"), Card("spades", "J"), Card("spades", "Q"),
       Card("clubs", "2"), Card("spades", "2"),
       Card("diamonds", "3"), Card("clubs", "3"),
       Card("clubs", "4"), Card("diamonds", "5"),
       Card("hearts", "9"), Card("clubs", "9") >>

PoolIndex(card) == CHOOSE i \in 1..Len(BoardPool) : BoardPool[i] = card

\* what rules.py returns for the two hands on this board
Bench(player_hole, ai_hole, community) ==
    [player_hole |-> player_hole,
     ai_hole |-> ai_hole,
     community |-> community,
     player |-> evaluate_hand(player_hole, community),
     ai |-> evaluate_hand(ai_hole, community),
     result |-> compare_hands(player_hole, ai_hole, community)]

\* the tables and the decks under test are not in use
EvalAlone ==
    /\ state = <<>> /\ deck = <<>> /\ result = <<>> /\ hands = 0 /\ raises = 0
    /\ bj = <<>> /\ shuffled = <<>> /\ calc = <<>>
    /\ war = <<>> /\ war_ret = <<>> /\ rounds = 0
    /\ pack = <<>> /\ view = <<>>

\* the hole cards are dealt, the board is empty
EvalInit ==
    /\ \E d \in HoleDeals : bench = Bench(d[1], d[2], <<>>)
    /\ EvalAlone

\* the i-th card of the pool comes on the board, and the hands are
\* evaluated and compared again
Reveal(i) ==
    /\ Len(bench.community) < BoardSize
    /\ bench.community # <<>>
          => PoolIndex(bench.community[Len(bench.community)]) < i
    /\ bench' = Bench(bench.player_hole, bench.ai_hole,
                      Append(bench.community, BoardPool[i]))
    /\ UNCHANGED <<poker_vars, blackjack_vars, war_vars, pack, view>>

EvalNext == \E i \in 1..MaxPool : Reveal(i)

EvalSpec == EvalInit /\ [][EvalNext]_vars

(***************************************************************************)
(* Part 13: properties of the poker evaluator                              *)
(***************************************************************************)
\* the categories, lowest first
Categories ==
    << "High Card", "Pair", "Two Pair", "Three of a Kind", "Straight",
       "Flush", "Full House", "Four of a Kind", "Straight Flush", "Royal Flush" >>

\* the place of the category of an evaluation in that order
CategoryOf(e) == CHOOSE i \in 1..Len(Categories) : Categories[i] = e[3]

\* a is lexicographically greater than b (vectors of the same length)
LexGreater(a, b) ==
    \E i \in 1..Len(a) :
        /\ i <= Len(b)
        /\ a[i] > b[i]
        /\ \A j \in 1..(i - 1) : a[j] = b[j]

\* C29: compare_hands decides by hand category first, in the order HighCard
\* < Pair < TwoPair < ThreeOfAKind < Straight < Flush < FullHouse <
\* FourOfAKind < StraightFlush < RoyalFlush: the side whose best hand has the
\* higher category wins whatever the tie-break vectors are; tie-break vectors
\* are compared lexicographically only between equal categories; the result
\* is 'tie' exactly when category and tie-break vector are both equal, so
\* suits never break a tie.
C29_CategoryFirst ==
    (Len(bench.community) >= 3) =>
        LET p == bench.player
            a == bench.ai
            winner == bench.result[1]
        IN  /\ p[1] = CategoryOf(p) /\ a[1] = CategoryOf(a)
            /\ CategoryOf(p) > CategoryOf(a) => winner = "player"
            /\ CategoryOf(a) > CategoryOf(p) => winner = "ai"
            /\ CategoryOf(p) = CategoryOf(a)
                  => /\ Len(p[2]) = Len(a[2])
                     /\ LexGreater(p[2], a[2]) => winner = "player"
                     /\ LexGreater(a[2], p[2]) => winner = "ai"
            /\ winner = "tie" <=> (CategoryOf(p) = CategoryOf(a) /\ p[2] = a[2])

\* the player's pair of twos has beaten the ace-high hand of the AI
C29_Witness ==
    /\ Len(bench.community) = BoardSize
    /\ bench.player[3] = "Pair" /\ bench.ai[3] = "High Card"
    /\ bench.ai[2][1] > bench.player[2][1]
    /\ bench.result[1] = "player"

\* the evaluations of all the five-card subsets of cards
FiveCardHands(cards) ==
    {_evaluate_five_cards(
        [j \in 1..5 |-> cards[CHOOSE k \in I : Cardinality({m \in I : m < k}) = j - 1]]) :
            I \in {J \in SUBSET (1..Len(cards)) : Cardinality(J) = 5}}

\* evaluation x is strictly higher than y by (category, tie-break vector)
Higher(x, y) == x[1] > y[1] \/ (x[1] = y[1] /\ LexGreater(x[2], y[2]))

\* e is the lexicographic maximum of the evaluations in the set hs
MaximumOf(e, hs) ==
    /\ \E h \in hs : h[1] = e[1] /\ h[2] = e[2]
    /\ \A h \in hs : ~Higher(h, e)

\* C30: for every input of 5 to 7 distinct cards (2 hole cards plus
\* community cards), the (category, tie-break vector) returned by
\* evaluate_hand is the lexicographic maximum of the five-card evaluation
\* over all 5-card subsets of the input: it is attained by some subset, and
\* no subset evaluates strictly higher.
C30_BestOfSubsets ==
    (Len(bench.community) >= 3) =>
        /\ MaximumOf(bench.player,
                     FiveCardHands(bench.player_hole \o bench.community))
        /\ MaximumOf(bench.ai, FiveCardHands(bench.ai_hole \o bench.community))

\* seven cards whose best five are a full house: twos full of threes
C30_Witness ==
    /\ Len(bench.community) = BoardSize
    /\ bench.player[1] = 7 /\ bench.player[2] = <<2, 3>>
    /\ bench.ai[1] = 2

(***************************************************************************)
(* Part 14: _evaluate_five_cards applied to the five-card hands of a small *)
(* pack, picked card by card                                               *)
(***************************************************************************)
\* number of ranks of FiveRanks in the small pack
MaxRanks == 10

FiveRanks == <<"A", "2", "3", "4", "5", "6", "10", "J", "Q", "K", "7", "9">>

FiveSuits == <<"hearts", "spades">>

\* the small pack: every rank in hearts, then every rank in spades
FivePack ==
    [i \in 1..(2 * MaxRanks) |->
        Card(FiveSuits[1 + ((i - 1) \div MaxRanks)], FiveRanks[1 + ((i - 1) % MaxRanks)])]

\* no hand is evaluated before five cards are picked
NoHand == <<0, <<>>, "">>

\* the cards picked so far and, for five cards, what rules.py returns
Five(cards) ==
    [cards |-> cards,
     hand |-> IF Len(cards) = 5 THEN _evaluate_five_cards(cards) ELSE NoHand]

FiveInit ==
    /\ bench = Five(<<>>)
    /\ EvalAlone

\* the i-th card of the pack is picked, behind the cards picked before
Pick(i) ==
    /\ Len(bench.cards) < 5
    /\ \A j \in 1..Len(bench.cards) :
          \E k \in 1..(i - 1) : FivePack[k] = bench.cards[j]
    /\ bench' = Five(Append(bench.cards, FivePack[i]))
    /\ UNCHANGED <<poker_vars, blackjack_vars, war_vars, pack, view>>

FiveNext == \E i \in 1..(2 * MaxRanks) : Pick(i)

FiveSpec == FiveInit /\ [][FiveNext]_vars

\* the ranks of a hand
RankSet(cards) == {cards[i].rank : i \in 1..Len(cards)}

OneSuit(cards) == \A i, j \in 1..Len(cards) : cards[i].suit = cards[j].suit

WheelRanks == {"A", "2", "3", "4", "5"}

\* the wheel of the specification: Ah 2d 3s 4c 5h
WheelHand ==
    _evaluate_five_cards(<< Card("hearts", "A"), Card("diamonds", "2"),
                            Card("spades", "3"), Card("clubs", "4"),
                            Card("hearts", "5") >>)

\* the wheel of one suit
WheelFlush ==
    _evaluate_five_cards(<< Card("clubs", "A"), Card("clubs", "2"),
                            Card("clubs", "3"), Card("clubs", "4"),
                            Card("clubs", "5") >>)

\* C31: a five-card hand with ranks A,2,3,4,5 is a straight whose tie-break
\* vector counts the ace as 1 (5-high), so it ranks strictly below the
\* 6-high straight 2,3,4,5,6 and below every other straight; and A,2,3,4,5
\* of one suit is a Straight Flush, not a Royal Flush.
C31_AceLowStraight ==
    (Len(bench.cards) = 5) =>
        LET h == bench.hand
            ranks == RankSet(bench.cards)
        IN  /\ ranks = WheelRanks
                 => /\ h[2] = <<5, 4, 3, 2, 1>>
                    /\ IF OneSuit(bench.cards)
                       THEN h[1] = 9 /\ h[3] = "Straight Flush"
                       ELSE h[1] = 5 /\ h[3] = "Straight"
            /\ (ranks = {"2", "3", "4", "5", "6"} /\ ~OneSuit(bench.cards))
                 => h = <<5, <<6, 5, 4, 3, 2>>, "Straight">>
            /\ (h[3] = "Straight" /\ ranks # WheelRanks)
                 => /\ Higher(h, WheelHand)
                    /\ Compare(h, WheelHand)[1] = "player"
                    /\ Compare(WheelHand, h)[1] = "ai"
            /\ (h[3] \in {"Straight Flush", "Royal Flush"} /\ ranks # WheelRanks)
                 => /\ Higher(h, WheelFlush)
                    /\ Compare(WheelFlush, h)[1] = "ai"

\* the wheel in hearts has been evaluated
C31_Witness ==
    /\ Len(bench.cards) = 5
    /\ RankSet(bench.cards) = WheelRanks /\ OneSuit(bench.cards)
    /\ bench.hand = <<9, <<5, 4, 3, 2, 1>>, "Straight Flush">>

(***************************************************************************)
(* evaluate_hand and compare_hands called with well-formed and with        *)
(* malformed card lists                                                    *)
(***************************************************************************)
\* most hole cards handed to the evaluator for the player
MaxHole == 3

\* the cards the hole cards are taken from
HoleCards ==
    {Card("spades", "A"), Card("spades", "K"), Card("hearts", "A"), Card("clubs", "2")}

\* the hole cards of the player: any list of up to MaxHole of these cards,
\* the same card twice included
PlayerHoles == UNION {[1..n -> HoleCards] : n \in 0..MaxHole}

AiHoles == { <<Card("hearts", "A"), Card("hearts", "K")>> }

\* two flops: one shares no card with the hole cards, one holds the two of
\* clubs
Boards ==
    { <<Card("diamonds", "3"), Card("diamonds", "7"), Card("clubs", "9")>>,
      <<Card("diamonds", "3"), Card("diamonds", "7"), Card("clubs", "2")>> }

\* the arguments of a call that has not been made yet
Args(player_hole, ai_hole, community) ==
    [player_hole |-> player_hole, ai_hole |-> ai_hole, community |-> community,
     called |-> FALSE, error |-> None, player |-> NoHand, result |-> <<>>]

\* evaluate_hand(player_hole, community) and compare_hands(player_hole,
\* ai_hole, community): rules.py has no check of its arguments and no raise,
\* both calls return
Called(b) ==
    [b EXCEPT !.called = TRUE,
              !.error = None,
              !.player = evaluate_hand(b.player_hole, b.community),
              !.result = compare_hands(b.player_hole, b.ai_hole, b.community)]

InputInit ==
    /\ \E ph \in PlayerHoles, ah \in AiHoles, cc \in Boards :
          bench = Args(ph, ah, cc)
    /\ EvalAlone

Evaluate ==
    /\ ~bench.called
    /\ bench' = Called(bench)
    /\ UNCHANGED <<poker_vars, blackjack_vars, war_vars, pack, view>>

InputNext == Evaluate

InputSpec == InputInit /\ [][InputNext]_vars

\* the same card twice in a list
Repeats(cards) == \E i, j \in 1..Len(cards) : i # j /\ cards[i] = cards[j]

\* a wrong number of hole cards, or a card that occurs twice in the input
MalformedInput(b) ==
    \/ Len(b.player_hole) # 2 \/ Len(b.ai_hole) # 2
    \/ Repeats(b.player_hole \o b.ai_hole \o b.community)

\* C33: evaluate_hand and compare_hands given a wrong number of hole cards,
\* the same card twice, or a card shared between the two sides' hole cards
\* or with the community cards report an error instead of returning a
\* ranking.
C33_FailFast ==
    (bench.called /\ MalformedInput(bench))
        => (bench.error # None /\ bench.player = NoHand /\ bench.result = <<>>)


(***************************************************************************)
(* Part 15: a poker hand played out by calls                               *)
(*                                                                         *)
(* The hands of Spec with a side that answers 'call' whenever it is to     *)
(* move: PokerView hands every click of CALL to player_action and asks the *)
(* AI again for as long as the turn is the AI's, so the call of the side   *)
(* to move is not put off for ever.  CallSpec is Spec with that as weak    *)
(* fairness of the call.                                                   *)
(***************************************************************************)
\* the side to move of an unfinished hand answers 'call'
CallStep ==
    /\ ~state.finished
    /\ \/ state.turn = "player" /\ PlayerAction("call", 0)
       \/ state.turn = "ai" /\ AiAction([action |-> "call"])

CallSpec == Init /\ [][Next]_vars /\ WF_vars(CallStep)

\* C34: from every reachable unfinished state, if each side answers 'call'
\* on its turn from then on, the hand reaches finished (by showdown) after
\* finitely many actions, also after a short all-in call and after an all-in
\* larger than the other stack.
C34_CallsReachShowdown ==
    /\ <>[][CallStep]_vars => <>[]state.finished
    /\ [][ (CallStep /\ state'.finished) => state'.phase = "showdown" ]_vars


(***************************************************************************)
(* Part 16: the poker table as PokerView drives it                         *)
(*                                                                         *)
(* Two things of the view that Spec leaves out, each added to the hands of *)
(* Spec in a specification of its own: the raise of a decision is whatever *)
(* number the language model returned (PokerAgent only lifts it to 20), so *)
(* it can be odd and can leave a stack smaller than a blind (RaiseSpec);   *)
(* the NEW HAND button is enabled at all times, so on_new_game can be      *)
(* pressed with a hand in progress (TableSpec).                            *)
(***************************************************************************)
\* a decision of PokerAgent.decide with an odd raise
OddRaise == [action |-> "raise", raise_amount |-> 975]

AiOddRaise == AiAction(OddRaise)

\* NEW HAND pressed while the hand on the table is not finished
NewGameMidHand ==
    /\ hands < MaxHands
    /\ ~state.finished
    /\ \E fresh \in Deck :
          LET g == on_new_game(state, fresh)
          IN  state' = g.state /\ deck' = g.deck
    /\ result' = Msg1("None")
    /\ hands' = hands + 1
    /\ UNCHANGED raises
    /\ UNCHANGED <<blackjack_vars, rest_vars>>

\* the hands of Spec with the odd raise among the decisions
RaiseNext ==
    \/ Next
    \/ AiOddRaise

RaiseSpec == Init /\ [][RaiseNext]_vars

\* the hands of Spec with NEW HAND pressed at any time
TableNext ==
    \/ Next
    \/ NewGameMidHand

TableSpec == Init /\ [][TableNext]_vars

\* C35: across hands, the chips being reset before new_game only when a
\* stack is <= 0, player_chips >= 0 and ai_chips >= 0 in every state, also
\* right after the blinds of a stack smaller than its blind.
C35_ChipsNonNegative == state.player_chips >= 0 /\ state.ai_chips >= 0


\* the payout of a hand that ends in the state after, from the state mid the
\* finishing call's own branch left: an even pot if it ends by showdown, and
\* the two stacks together hold what the stacks and the pot held
Settled(mid, after) ==
    /\ after.phase = "showdown" => mid.pot % 2 = 0
    /\ after.player_chips + after.ai_chips
          = mid.player_chips + mid.ai_chips + mid.pot

\* C36: at every reachable showdown the pot is even, so for every finished
\* hand the chips of the two sides after the payout are their chips plus
\* the pot before it.
C36_EvenPotPayout ==
    [][ /\ \A c \in PlayerCalls :
              (~state.finished /\ state'.finished /\ PlayerStep(c))
              => Settled(player_apply(state, c[1], c[2]).state, state')
        /\ \A d \in Decisions \cup {OddRaise} :
              (~state.finished /\ state'.finished /\ AiStep(d))
              => Settled(ai_apply(state, d).state, state') ]_vars

\* a showdown after the odd raise was called: the AI is left with 5 chips
C36_Witness ==
    /\ state.finished /\ state.phase = "showdown" /\ state.winner = "player"
    /\ state.player_chips = 1995 /\ state.ai_chips = 5

\* C37: new_game preserves player_chips + ai_chips + pot, also when it is
\* called mid-hand with the pot not yet awarded.
C37_NewGameKeepsChips ==
    [][ hands' = hands + 1 => Chips(state') = Chips(NewGameEntry) ]_vars


(***************************************************************************)
(* Part 17: the Blackjack view (ui/blackjack_view.py)                      *)
(*                                                                         *)
(* BlackjackView owns the controller.  Its button handlers run on the GUI  *)
(* thread; Stand starts an AIWorker on a thread of its own, whose decision *)
(* comes back later as the queued call _on_ai_decision, after whatever     *)
(* events the user made in between.  view holds the two buttons, the       *)
(* workers whose decision is still to come (asked for in the hand on the   *)
(* table: fresh, or in an earlier one: stale), the card back, and the      *)
(* number of save_game_result calls made for the game on the table.        *)
(***************************************************************************)
\* most save_game_result calls counted for one game, and most workers whose
\* decision is still to come
MaxSaves == 3
MaxWorkers == 2

\* the controller state and the view, as a handler finds and leaves them
Table(b, v) == [bj |-> b, view |-> v]

\* BlackjackView._refresh: for a finished hand the buttons are disabled and
\* the result is saved
_refresh(b, v) ==
    IF b.finished
    THEN Table(b, [v EXCEPT !.hit_btn = FALSE, !.stand_btn = FALSE,
                            !.saves = @ + 1])
    ELSE Table(b, v)

\* BlackjackView.__init__: BlackjackController(), then _refresh()
view_init(b) ==
    _refresh(b, [hit_btn |-> TRUE, stand_btn |-> TRUE, fresh |-> 0, stale |-> 0,
                 card_back |-> "back.svg", saves |-> 0])

\* BlackjackView.on_hit
on_hit(b, v) == _refresh(player_hit(b), v)

\* BlackjackView._start_ai_turn.  The new QThread and AIWorker replace the
\* ones kept in _ai_thread and _ai_worker; a worker replaced while its
\* decision is still to come either delivers it all the same (kept) or is
\* destroyed with its thread and never does.
_start_ai_turn(b, v, kept) ==
    IF b.finished THEN _refresh(b, v)
    ELSE IF kept THEN Table(b, [v EXCEPT !.fresh = @ + 1])
    ELSE Table(b, [v EXCEPT !.fresh = 1, !.stale = 0])

\* BlackjackView.on_stand
on_stand(b, v, kept) ==
    _start_ai_turn(player_stand(b),
                   [v EXCEPT !.hit_btn = FALSE, !.stand_btn = FALSE], kept)

\* BlackjackView._on_ai_decision(decision), decision.action being action
_on_ai_decision(b, v, action, kept) ==
    IF action = "hit"
    THEN LET hit == _refresh(ai_draws(b), v)
         IN  IF is_bust(hit.bj.ai_hand)
             THEN _refresh(_finish_game(hit.bj, "player"), hit.view)
             ELSE _start_ai_turn(hit.bj, hit.view, kept)
    ELSE _refresh(ai_stand_and_resolve(b), v)

\* BlackjackView.on_new_game, with the hand new_game dealt: the workers of
\* the hand before go on running
blackjack_on_new_game(dealt, v) ==
    _refresh(dealt, [v EXCEPT !.hit_btn = TRUE, !.stand_btn = TRUE,
                              !.stale = @ + v.fresh, !.fresh = 0,
                              !.saves = 0])

\* BlackjackView.set_card_back
set_card_back(b, v, filename) == _refresh(b, [v EXCEPT !.card_back = filename])

\* the card backs of the settings dialog that the model uses
CardBacks == {"back.svg", "back2.svg"}

\* the decisions BlackjackAgent.decide returns
AiActions == {"hit", "stand"}

\* the handler's result stays within the bounds of the model
Within(t) ==
    /\ t.view.saves <= MaxSaves
    /\ t.view.fresh + t.view.stale <= MaxWorkers

\* the hand and the view become what the handler left
Becomes(t) == Within(t) /\ bj' = t.bj /\ view' = t.view

\* the windows of the other games and the test benches are not in use
ViewAlone ==
    /\ PokerIdle
    /\ calc = <<>>
    /\ war = <<>> /\ war_ret = <<>> /\ rounds = 0
    /\ pack = <<>> /\ bench = <<>>

ViewInit ==
    /\ \E fresh \in BlackjackRedeal :
          LET t == view_init(blackjack_new_game(fresh))
          IN  shuffled = fresh /\ bj = t.bj /\ view = t.view
    /\ ViewAlone

view_frame == <<shuffled, calc, poker_vars, war_vars, pack, bench>>

\* the HIT button is clicked (a disabled button emits nothing)
OnHit ==
    /\ view.hit_btn
    /\ Becomes(on_hit(bj, view))
    /\ UNCHANGED view_frame

\* the STAND button is clicked
OnStand ==
    /\ view.stand_btn
    /\ \E kept \in BOOLEAN : Becomes(on_stand(bj, view, kept))
    /\ UNCHANGED view_frame

\* the NEW GAME button is clicked
OnNewGame ==
    /\ \E fresh \in BlackjackRedeal :
          /\ shuffled' = fresh
          /\ Becomes(blackjack_on_new_game(blackjack_new_game(fresh), view))
    /\ UNCHANGED <<calc, poker_vars, war_vars, pack, bench>>

\* a card back is chosen in the settings
SetCardBack(filename) ==
    /\ filename # view.card_back
    /\ Becomes(set_card_back(bj, view, filename))
    /\ UNCHANGED view_frame

\* the decision of a worker asked in the hand on the table arrives
FreshDecision(action) ==
    /\ view.fresh > 0
    /\ \E kept \in BOOLEAN :
          Becomes(_on_ai_decision(bj, [view EXCEPT !.fresh = @ - 1], action, kept))
    /\ UNCHANGED view_frame

\* the decision of a worker asked in an earlier hand arrives
StaleDecision(action) ==
    /\ view.stale > 0
    /\ \E kept \in BOOLEAN :
          Becomes(_on_ai_decision(bj, [view EXCEPT !.stale = @ - 1], action, kept))
    /\ UNCHANGED view_frame

\* _on_ai_error: the worker failed (Ollama not running), which is logged
AiError ==
    /\ view.fresh + view.stale > 0
    /\ \/ view.fresh > 0 /\ view' = [view EXCEPT !.fresh = @ - 1]
       \/ view.stale > 0 /\ view' = [view EXCEPT !.stale = @ - 1]
    /\ UNCHANGED <<bj, view_frame>>

ViewNext ==
    \/ OnHit
    \/ OnStand
    \/ OnNewGame
    \/ \E f \in CardBacks : SetCardBack(f)
    \/ \E a \in AiActions : FreshDecision(a)
    \/ \E a \in AiActions : StaleDecision(a)
    \/ AiError

ViewSpec == ViewInit /\ [][ViewNext]_vars


(***************************************************************************)
(* Part 18: properties of the Blackjack view                               *)
(***************************************************************************)
\* C32: for every finished game the final result is handed to
\* save_game_result exactly once: not zero times, and not more than once
\* whatever events follow the finish (a refresh, a change of the card back).
\* Stated for the Blackjack view.
C32_SavedOnce == bj.finished => view.saves = 1

\* the winner the totals of the two hands call for
WinnerByTotals(st) ==
    LET p == hand_value(st.player_hand)
        a == hand_value(st.ai_hand)
    IN  IF p > 21 THEN "ai"
        ELSE IF a > 21 THEN "player"
        ELSE IF p > a THEN "player"
        ELSE IF a > p THEN "ai"
        ELSE "push"

\* the winner of a finished hand agrees with the totals
WinnerAgrees(st) == st.finished => st.winner = WinnerByTotals(st)

\* C39: whenever a Blackjack hand is finished, however it ended, the winner
\* agrees with the totals: 'ai' if the player's total exceeds 21, otherwise
\* 'player' if the AI's total exceeds 21, otherwise the side with the higher
\* total, and 'push' if the totals are equal.
C39_WinnerAgrees == WinnerAgrees(bj)

\* the controller's own calls keep the winner in agreement with the totals
ControllerWinnerAgrees == [](WinnerAgrees(bj))

\* the step gives the AI a card or resolves the hand by its totals
AiActs ==
    \/ Len(bj'.ai_hand.cards) > Len(bj.ai_hand.cards)
    \/ ~bj.finished /\ bj'.finished

\* C40: under every interleaving of the Hit, Stand and New Game events with
\* the decision callback of the worker, a decision gives the AI a card or
\* resolves the hand only when the hand is unfinished and current_turn is
\* 'ai': never while current_turn is 'player', and never in a hand started
\* after the decision was asked for.
C40_ActsOnOwnTurn ==
    [][ /\ \A a \in AiActions :
              (FreshDecision(a) /\ AiActs)
              => (~bj.finished /\ bj.current_turn = "ai")
        /\ \A a \in AiActions : StaleDecision(a) => ~AiActs ]_vars

====
